---- MODULE Spec2Model ----
(***************************************************************************)
(* Model of the ordering engine (master-order helpers) and the calendar    *)
(* engine (Japanese holiday computation) of the scheduling application.    *)
(*                                                                         *)
(* Arrays are 1-based sequences here; a 0-based index i of the source is   *)
(* position i + 1.  Every pure function of the source is an operator, and  *)
(* each specification draws the function's inputs in its initial states    *)
(* and applies the function in its actions.                                *)
(***************************************************************************)
EXTENDS Integers, Sequences, FiniteSets, TLC

VARIABLES
    pc,                 \* position of the driver of the specification in use
    currentRows,        \* buildSortOrderPatches: the persisted {id, sortOrder} rows
    orderedIds,         \* buildSortOrderPatches / renumberSortOrders: the id order
    step,               \* the step argument as passed
    normalized,         \* the local normalizedOrderedIds when the loops are done
    patches,            \* the value returned by buildSortOrderPatches
    storedRows,         \* the rows after the patches were written
    renumbered,         \* the value returned by renumberSortOrders
    existingSortOrders, \* getNextSortOrder: the argument
    nextSortOrder,      \* getNextSortOrder: the returned value
    items,              \* moveItem / moveItemByDrop: the list as drawn
    heap,               \* moveItem: the arrays that exist, by reference
    resultRef,          \* moveItem: the reference returned (0: none yet)
    fromIndex,          \* moveItem: 0-based source index
    toIndex,            \* moveItem: 0-based target index
    draggedId,          \* moveItemByDrop: id of the dragged item
    overId,             \* moveItemByDrop: id of the drop target
    position,           \* moveItemByDrop: "before" or "after"
    dropped,            \* moveItemByDrop: the returned list
    redropped,          \* moveItemByDrop: the list returned by a second drop
    year,               \* buildJapaneseHolidaySet: the argument
    holidays,           \* buildJapaneseHolidaySet: the set being built
    bridged,            \* the set as it was when the substitute rule started
    dateString,         \* the argument of the date predicates
    holidayCache,       \* holidayCache: year -> holiday set, as a function
    cacheBefore,        \* holidayCache as it was when the last call started
    lastCall,           \* the predicate called last ("": none yet)
    answer,             \* the value the last call returned
    buildCount,         \* year -> calls of buildJapaneseHolidaySet made so far
    rangeStart,         \* dateRange / daysBetween: the start argument
    rangeEnd,           \* dateRange / daysBetween: the end argument
    rangeDates,         \* the value returned by dateRange
    dayCount,           \* the value returned by daysBetween
    rowsBefore,         \* the table as it was when the last operation started
    pending,            \* reorderMasters: indices of the patches not yet applied
    rowsProp,           \* MasterTableEditor: the rows prop
    orderedRows,        \* MasterTableEditor: the rows displayed (state)
    dragState,          \* MasterTableEditor: <<>> for null, else <<the drag>>
    reorderBusy,        \* MasterTableEditor: the reorder lock (state)
    previousRows,       \* onPointerUp: the rows displayed when the drop came
    nextRows,           \* onPointerUp: the rows displayed after the drop
    inFlight            \* calls of onReorder that have not settled

patchVars == <<currentRows, normalized, patches, storedRows>>
nextVars == <<existingSortOrders, nextSortOrder>>
orderVars == <<orderedIds, step, renumbered, patchVars, nextVars>>
moveVars == <<heap, resultRef, fromIndex, toIndex>>
dropVars == <<draggedId, overId, position, dropped, redropped>>

listVars == <<items, moveVars, dropVars>>
holidayVars == <<year, holidays, bridged>>
queryVars == <<dateString, holidayCache, cacheBefore, lastCall, answer, buildCount>>
rangeVars == <<rangeStart, rangeEnd, rangeDates, dayCount>>
calendarVars == <<queryVars, rangeVars>>
storeVars == <<rowsBefore, pending>>
editorVars == <<rowsProp, orderedRows, dragState, reorderBusy, previousRows, nextRows, inFlight>>
uiVars == <<storeVars, editorVars>>

vars == <<pc, orderVars, listVars, holidayVars, calendarVars, uiVars>>

----------------------------------------------------------------------------
(* Bounds of the model *)

\* longest orderedIds / ids / existingSortOrders argument that is drawn
MaxOrdered == 3
\* sort orders are drawn from {0, step, ..., MaxRank * step}
MaxRank == 3

\* longest list of items that is drawn
MaxItems == 4
\* holiday sets are built for the years FirstYear..LastYear
\* a row is created as long as its sort order is at most MaxStoredRank * step
MaxStoredRank == 5
FirstYear == 1946
LastYear == 2030

\* the default value of the step parameter
DefaultStep == 10

\* ids of rows that can be persisted, and an id no row carries
KnownIds == {"a", "b", "c"}
UnknownId == "z"
AllIds == KnownIds \cup {UnknownId}

\* the step argument as passed: <<>> when the caller omits it, <<n>> when given
StepArgs == {<<>>, <<1>>}

\* step = 10 in the parameter lists: the default applies to an omitted argument
stepOf(s) == IF s = <<>> THEN DefaultStep ELSE s[1]

SortOrderPool(s) == {k * stepOf(s) : k \in 0..MaxRank}

\* items of a list: four with ids of their own and one that repeats the id "a"
ItemIds == {"a", "b", "c", "d"}
ItemPool ==
    {[id |-> "a", name |-> "A"], [id |-> "b", name |-> "B"], [id |-> "c", name |-> "C"],
     [id |-> "d", name |-> "D"], [id |-> "a", name |-> "A2"]}

\* the value undefined in the place of an item
Undefined == [id |-> "undefined", name |-> "undefined"]

----------------------------------------------------------------------------
(* Helpers for drawing inputs *)

SeqsUpTo(S, n) == UNION {[1..k -> S] : k \in 0..n}

Range(s) == {s[i] : i \in 1..Len(s)}

DistinctIds(rows) == \A i, j \in 1..Len(rows) : rows[i].id = rows[j].id => i = j

\* the known ids, in the order in which drawn rows carry them
KnownIdList == <<"a", "b", "c">>

\* every array of up to three rows with pairwise distinct ids and sort orders
\* of the pool. The engine only compares ids, so the rows carry the ids in the
\* order of KnownIdList; orderedIds is drawn in every order.
RowSeqs(s) ==
    UNION {{[i \in 1..k |-> [id |-> KnownIdList[i], sortOrder |-> sortOrders[i]]] :
               sortOrders \in [1..k -> SortOrderPool(s)]} : k \in 0..Len(KnownIdList)}

----------------------------------------------------------------------------
(* The ordering engine *)

\* faulty variant: the 0-based index is used as the rank (index * step)
renumberSortOrdersZeroBased(ids, s) ==
    [i \in 1..Len(ids) |-> [id |-> ids[i], sortOrder |-> (i - 1) * stepOf(s)]]

\* ids.map((id, index) => ({ id, sortOrder: (index + 1) * step }))
renumberSortOrders(ids, s) ==
    [i \in 1..Len(ids) |-> [id |-> ids[i], sortOrder |-> i * stepOf(s)]]

\* new Map(currentRows.map((row) => [row.id, row.sortOrder])): has / get.
\* A later entry of the same key replaces the earlier one.
currentMapHas(rows, id) == \E i \in 1..Len(rows) : rows[i].id = id

currentMapGet(rows, id) ==
    LET last == CHOOSE i \in 1..Len(rows) :
                    /\ rows[i].id = id
                    /\ \A j \in 1..Len(rows) : rows[j].id = id => j <= i
    IN  rows[last].sortOrder

\* faulty variant: an id that was seen before is kept again
RECURSIVE keepKnownSeenToo(_, _, _, _)
keepKnownSeenToo(rows, ids, i, acc) ==
    IF i > Len(ids) THEN acc
    ELSE IF ~currentMapHas(rows, ids[i])
         THEN keepKnownSeenToo(rows, ids, i + 1, acc)
         ELSE keepKnownSeenToo(rows, ids, i + 1, Append(acc, ids[i]))

\* first loop: walk orderedIds, keep the ids that are known and not seen yet
RECURSIVE keepKnownUnseen(_, _, _, _)
keepKnownUnseen(rows, ids, i, acc) ==
    IF i > Len(ids) THEN acc
    ELSE IF ~currentMapHas(rows, ids[i]) \/ ids[i] \in Range(acc)
         THEN keepKnownUnseen(rows, ids, i + 1, acc)
         ELSE keepKnownUnseen(rows, ids, i + 1, Append(acc, ids[i]))

\* faulty variant: the rows that were not seen are left out
appendUnseenRowsNever(rows, i, acc) == acc

\* second loop: append the rows that were not seen, in their own order
RECURSIVE appendUnseenRows(_, _, _)
appendUnseenRows(rows, i, acc) ==
    IF i > Len(rows) THEN acc
    ELSE IF rows[i].id \in Range(acc)
         THEN appendUnseenRows(rows, i + 1, acc)
         ELSE appendUnseenRows(rows, i + 1, Append(acc, rows[i].id))

normalizedOrderedIds(rows, ids) ==
    appendUnseenRows(rows, 1, keepKnownUnseen(rows, ids, 1, <<>>))

\* faulty variant: the filter compares with < instead of !==
patchDiffersLess(rows, nextRow) == currentMapGet(rows, nextRow.id) < nextRow.sortOrder

\* faulty variant: the filter keeps every renumbered row
patchDiffersAlways(rows, nextRow) == TRUE

\* the filter of the return statement: currentMap.get(nextRow.id) !== nextRow.sortOrder
patchDiffers(rows, nextRow) == currentMapGet(rows, nextRow.id) # nextRow.sortOrder

\* faulty variant: the rows omitted from orderedIds are not appended before renumbering
buildSortOrderPatchesListedOnly(rows, ids, s) ==
    LET Changed(nextRow) == patchDiffers(rows, nextRow)
    IN  SelectSeq(renumberSortOrders(keepKnownUnseen(rows, ids, 1, <<>>), <<stepOf(s)>>), Changed)

buildSortOrderPatches(rows, ids, s) ==
    LET Changed(nextRow) == patchDiffers(rows, nextRow)
    IN  SelectSeq(renumberSortOrders(normalizedOrderedIds(rows, ids), <<stepOf(s)>>), Changed)

\* faulty variant: the reducer keeps the smaller value
RECURSIVE reduceMin(_, _, _)
reduceMin(values, i, max) ==
    IF i > Len(values) THEN max
    ELSE reduceMin(values, i + 1, IF values[i] < max THEN values[i] ELSE max)

\* existingSortOrders.reduce((max, value) => (value > max ? value : max), 0)
RECURSIVE reduceMax(_, _, _)
reduceMax(values, i, max) ==
    IF i > Len(values) THEN max
    ELSE reduceMax(values, i + 1, IF values[i] > max THEN values[i] ELSE max)

\* faulty variant: the next value is counted from the number of rows
getNextSortOrderByCount(values, s) == (Len(values) + 1) * stepOf(s)

getNextSortOrder(values, s) ==
    LET maxSortOrder == reduceMax(values, 1, 0)
    IN  IF maxSortOrder > 0 THEN maxSortOrder + stepOf(s) ELSE stepOf(s)

\* faulty variant: the row that holds the requested value takes the old value
\* of the patched row
applyPatchSwapping(rows, patch) ==
    [i \in 1..Len(rows) |->
        IF rows[i].id = patch.id
        THEN [rows[i] EXCEPT !.sortOrder = patch.sortOrder]
        ELSE IF rows[i].sortOrder = patch.sortOrder /\ currentMapHas(rows, patch.id)
        THEN [rows[i] EXCEPT !.sortOrder = currentMapGet(rows, patch.id)]
        ELSE rows[i]]

\* patches.map((patch) => patchMasterRequest(resource, patch.id, { sortOrder }))
\* each request sets sort_order of the row with that id
applyPatch(rows, patch) ==
    [i \in 1..Len(rows) |->
        IF rows[i].id = patch.id
        THEN [rows[i] EXCEPT !.sortOrder = patch.sortOrder]
        ELSE rows[i]]

\* faulty variant: only the first request is sent
applyPatchesFirstOnly(rows, ps, i) ==
    IF i > Len(ps) THEN rows ELSE applyPatch(rows, ps[i])

RECURSIVE applyPatches(_, _, _)
applyPatches(rows, ps, i) ==
    IF i > Len(ps) THEN rows
    ELSE applyPatches(applyPatch(rows, ps[i]), ps, i + 1)

----------------------------------------------------------------------------
(* Array primitives used by moveItem and moveItemByDrop (0-based arguments) *)

\* relative-index resolution of splice and slice: negative counts from the end
clampIndex(len, k) ==
    IF k < 0 THEN (IF len + k < 0 THEN 0 ELSE len + k)
    ELSE IF k > len THEN len ELSE k

\* array.splice(start, 1): the array left and the elements deleted
spliceDeleteOne(array, start) ==
    LET at == clampIndex(Len(array), start)
    IN  IF at < Len(array)
        THEN [array |-> SubSeq(array, 1, at) \o SubSeq(array, at + 2, Len(array)),
              deleted |-> <<array[at + 1]>>]
        ELSE [array |-> array, deleted |-> <<>>]

\* array.splice(start, 0, item)
spliceInsert(array, start, item) ==
    LET at == clampIndex(Len(array), start)
    IN  SubSeq(array, 1, at) \o <<item>> \o SubSeq(array, at + 1, Len(array))

\* array.slice(start, end)
slice(array, start, end) ==
    SubSeq(array, clampIndex(Len(array), start) + 1, clampIndex(Len(array), end))

\* array.findIndex((item) => item.id === id): 0-based, -1 when there is none
findIndex(array, id) ==
    IF \E i \in 1..Len(array) : array[i].id = id
    THEN (CHOOSE i \in 1..Len(array) :
              array[i].id = id /\ \A j \in 1..(i - 1) : array[j].id # id) - 1
    ELSE -1

\* [...items]: a new array with the elements of the array at ref
spread(h, ref) == Append(h, h[ref])

\* const [moved] = ...: the first element of an array, undefined when it is empty
firstOf(array) == IF array = <<>> THEN Undefined ELSE array[1]

----------------------------------------------------------------------------
(* moveItem and moveItemByDrop *)

\* faulty variant: the splices act on the argument itself instead of a copy
moveItemInPlace(h, ref, from, to) ==
    IF from = to THEN [heap |-> spread(h, ref), ret |-> Len(h) + 1]
    ELSE IF from < 0 \/ from >= Len(h[ref]) \/ to < 0 \/ to >= Len(h[ref])
    THEN [heap |-> spread(h, ref), ret |-> Len(h) + 1]
    ELSE LET cut == spliceDeleteOne(h[ref], from)
         IN  [heap |-> [h EXCEPT ![ref] = spliceInsert(cut.array, to, firstOf(cut.deleted))],
              ret |-> ref]

\* faulty variant: the two elements are exchanged instead of one being moved
moveItemSwap(h, ref, from, to) ==
    IF from = to THEN [heap |-> spread(h, ref), ret |-> Len(h) + 1]
    ELSE IF from < 0 \/ from >= Len(h[ref]) \/ to < 0 \/ to >= Len(h[ref])
    THEN [heap |-> spread(h, ref), ret |-> Len(h) + 1]
    ELSE LET h1 == spread(h, ref)
             next == Len(h1)
         IN  [heap |-> [h1 EXCEPT ![next] =
                           [h1[next] EXCEPT ![from + 1] = h1[next][to + 1],
                                            ![to + 1] = h1[next][from + 1]]],
              ret |-> next]

\* moveItem(items, fromIndex, toIndex) on the heap h, items being the reference
\* ref: the heap after the call and the reference returned
moveItem(h, ref, from, to) ==
    IF from = to THEN [heap |-> spread(h, ref), ret |-> Len(h) + 1]
    ELSE IF from < 0 \/ from >= Len(h[ref]) \/ to < 0 \/ to >= Len(h[ref])
    THEN [heap |-> spread(h, ref), ret |-> Len(h) + 1]
    ELSE LET h1 == spread(h, ref)
             next == Len(h1)
             cut == spliceDeleteOne(h1[next], from)
             moved == firstOf(cut.deleted)
         IN  [heap |-> [h1 EXCEPT ![next] = spliceInsert(cut.array, to, moved)],
              ret |-> next]

\* faulty variant: overId is located in the full list, not in the list without the dragged item
moveItemByDropStaleIndex(list, dragged, over, pos) ==
    IF dragged = over THEN list
    ELSE LET draggedIndex == findIndex(list, dragged)
         IN  IF draggedIndex < 0 THEN list
             ELSE LET NotDragged(item) == item.id # dragged
                      remaining == SelectSeq(list, NotDragged)
                      overIndex == findIndex(list, over)
                  IN  IF overIndex < 0 THEN list
                      ELSE LET insertIndex == IF pos = "before" THEN overIndex ELSE overIndex + 1
                           IN  slice(remaining, 0, insertIndex)
                                   \o <<list[draggedIndex + 1]>>
                                   \o slice(remaining, insertIndex, Len(remaining))

\* faulty variant: the position is not looked at, the item always goes before
moveItemByDropAlwaysBefore(list, dragged, over, pos) ==
    IF dragged = over THEN list
    ELSE LET draggedIndex == findIndex(list, dragged)
         IN  IF draggedIndex < 0 THEN list
             ELSE LET NotDragged(item) == item.id # dragged
                      remaining == SelectSeq(list, NotDragged)
                      overIndex == findIndex(remaining, over)
                  IN  IF overIndex < 0 THEN list
                      ELSE slice(remaining, 0, overIndex)
                               \o <<list[draggedIndex + 1]>>
                               \o slice(remaining, overIndex, Len(remaining))

\* faulty variant: a target that is not found is not checked for
moveItemByDropUncheckedOver(list, dragged, over, pos) ==
    IF dragged = over THEN list
    ELSE LET draggedIndex == findIndex(list, dragged)
         IN  IF draggedIndex < 0 THEN list
             ELSE LET NotDragged(item) == item.id # dragged
                      remaining == SelectSeq(list, NotDragged)
                      overIndex == findIndex(remaining, over)
                      insertIndex == IF pos = "before" THEN overIndex ELSE overIndex + 1
                  IN  slice(remaining, 0, insertIndex)
                          \o <<list[draggedIndex + 1]>>
                          \o slice(remaining, insertIndex, Len(remaining))

moveItemByDrop(list, dragged, over, pos) ==
    IF dragged = over THEN list
    ELSE LET draggedIndex == findIndex(list, dragged)
         IN  IF draggedIndex < 0 THEN list
             ELSE LET NotDragged(item) == item.id # dragged
                      remaining == SelectSeq(list, NotDragged)
                      overIndex == findIndex(remaining, over)
                  IN  IF overIndex < 0 THEN list
                      ELSE LET insertIndex == IF pos = "before" THEN overIndex ELSE overIndex + 1
                           IN  slice(remaining, 0, insertIndex)
                                   \o <<list[draggedIndex + 1]>>
                                   \o slice(remaining, insertIndex, Len(remaining))

----------------------------------------------------------------------------
(* Strings of the calendar engine: sequences of characters *)

DigitChars == <<"0", "1", "2", "3", "4", "5", "6", "7", "8", "9">>
Dash == "-"

IsDigit(c) == \E d \in 1..10 : DigitChars[d] = c
DigitValue(c) == (CHOOSE d \in 1..10 : DigitChars[d] = c) - 1

\* String(n) of an integer n
RECURSIVE numberToString(_)
numberToString(n) ==
    IF n < 0 THEN <<Dash>> \o numberToString(0 - n)
    ELSE IF n < 10 THEN <<DigitChars[n + 1]>>
    ELSE numberToString(n \div 10) \o <<DigitChars[(n % 10) + 1]>>

\* text.padStart(2, "0")
padStart2(text) ==
    IF Len(text) >= 2 THEN text
    ELSE IF Len(text) = 1 THEN <<"0">> \o text
    ELSE <<"0", "0">>

\* `${year}-${String(month).padStart(2, "0")}-${String(day).padStart(2, "0")}`
toDateKey(y, m, d) ==
    numberToString(y) \o <<Dash>> \o padStart2(numberToString(m))
        \o <<Dash>> \o padStart2(numberToString(d))

\* text.split("-"): the pieces between the dashes
RECURSIVE splitDash(_, _, _, _)
splitDash(text, i, piece, pieces) ==
    IF i > Len(text) THEN Append(pieces, piece)
    ELSE IF text[i] = Dash THEN splitDash(text, i + 1, <<>>, Append(pieces, piece))
    ELSE splitDash(text, i + 1, Append(piece, text[i]), pieces)

NaN == [nan |-> TRUE, value |-> 0]

RECURSIVE digitsValue(_, _, _)
digitsValue(text, i, acc) ==
    IF i > Len(text) THEN acc
    ELSE digitsValue(text, i + 1, acc * 10 + DigitValue(text[i]))

\* Number(piece) for a piece of digits and other characters: the decimal value
\* of a run of digits, 0 for the empty string, NaN otherwise; a piece that is
\* missing (undefined) gives NaN
toNumber(pieces, k) ==
    IF k > Len(pieces) THEN NaN
    ELSE IF \A i \in 1..Len(pieces[k]) : IsDigit(pieces[k][i])
         THEN [nan |-> FALSE, value |-> digitsValue(pieces[k], 1, 0)]
         ELSE NaN

Null == [ok |-> FALSE, year |-> 0, month |-> 0, day |-> 0]

\* the element of a one-element set; {F(v) : v \in {e}} names the value of e
\* as v, so that e is computed once however often F uses it
TheOne(set) == CHOOSE v \in set : TRUE

\* the two checks of parseDateKey on the converted pieces
checkedDate(yearRaw, monthRaw, dayRaw) ==
    IF yearRaw.nan \/ monthRaw.nan \/ dayRaw.nan THEN Null
    ELSE IF monthRaw.value < 1 \/ monthRaw.value > 12
              \/ dayRaw.value < 1 \/ dayRaw.value > 31 THEN Null
    ELSE [ok |-> TRUE, year |-> yearRaw.value, month |-> monthRaw.value,
          day |-> dayRaw.value]

parseDateKey(dateKey) ==
    TheOne({checkedDate(toNumber(pieces, 1), toNumber(pieces, 2), toNumber(pieces, 3)) :
               pieces \in {splitDash(dateKey, 1, <<>>, <<>>)}})

\* UTF-16 code unit order of the characters used: "-" before the digits
charCode(c) == IF c = Dash THEN 45 ELSE 48 + DigitValue(c)

\* a < b in the order Array.prototype.sort() uses without a comparator
RECURSIVE stringLess(_, _, _)
stringLess(a, b, i) ==
    IF i > Len(a) THEN i <= Len(b)
    ELSE IF i > Len(b) THEN FALSE
    ELSE IF a[i] = b[i] THEN stringLess(a, b, i + 1)
    ELSE charCode(a[i]) < charCode(b[i])

\* [...set].sort()
RECURSIVE sortStrings(_)
sortStrings(set) ==
    IF set = {} THEN <<>>
    ELSE LET least == CHOOSE a \in set : \A b \in set \ {a} : stringLess(a, b, 1)
         IN  <<least>> \o sortStrings(set \ {least})

----------------------------------------------------------------------------
(* Dates of the calendar engine: the Gregorian calendar behind Date *)

isLeapYear(y) == (y % 4 = 0 /\ y % 100 # 0) \/ y % 400 = 0

\* new Date(year, month, 0).getDate()
daysInMonth(y, m) ==
    IF m = 2 THEN (IF isLeapYear(y) THEN 29 ELSE 28)
    ELSE IF m \in {4, 6, 9, 11} THEN 30 ELSE 31

RECURSIVE daysBeforeMonth(_, _)
daysBeforeMonth(y, m) ==
    IF m <= 1 THEN 0 ELSE daysBeforeMonth(y, m - 1) + daysInMonth(y, m - 1)

\* days from 0001-01-01 (day 1, a Monday) to the date; a day past the end of
\* the month counts on into the next one, as the Date constructor does
dayNumber(y, m, d) ==
    365 * (y - 1) + ((y - 1) \div 4) - ((y - 1) \div 100) + ((y - 1) \div 400)
        + daysBeforeMonth(y, m) + d

\* the year a Date is built for: new Date(year, ...) takes a year from 0 to 99
\* as 1900 + year
dateYear(y) == IF y >= 0 /\ y <= 99 THEN 1900 + y ELSE y

\* new Date(year, month - 1, day).getDay(): 0 is Sunday
getDay(y, m, d) == dayNumber(dateYear(y), m, d) % 7

\* date.setDate(date.getDate() + 1)
nextDate(date) ==
    IF date.day < daysInMonth(date.year, date.month)
    THEN [date EXCEPT !.day = date.day + 1]
    ELSE IF date.month < 12
    THEN [year |-> date.year, month |-> date.month + 1, day |-> 1]
    ELSE [year |-> date.year + 1, month |-> 1, day |-> 1]

\* date.setDate(date.getDate() - 1)
prevDate(date) ==
    IF date.day > 1 THEN [date EXCEPT !.day = date.day - 1]
    ELSE IF date.month > 1
    THEN [year |-> date.year, month |-> date.month - 1,
          day |-> daysInMonth(date.year, date.month - 1)]
    ELSE [year |-> date.year - 1, month |-> 12, day |-> 31]

dateKeyOf(date) == toDateKey(date.year, date.month, date.day)

----------------------------------------------------------------------------
(* The holiday rules *)

\* faulty variant: the week is counted from the first day of the month
nthWeekdayOfMonthByWeek(y, m, weekday, nth) ==
    LET firstDay == getDay(y, m, 1)
    IN  1 + (weekday - firstDay) + (nth - 1) * 7

nthWeekdayOfMonth(y, m, weekday, nth) ==
    LET firstDay == getDay(y, m, 1)
        delta == (weekday - firstDay + 7) % 7
    IN  1 + delta + (nth - 1) * 7

\* faulty variant: the base of the formula is 31.8431
vernalEquinoxDayLate(y) ==
    ((31843100 + 242194 * (y - 1980)) \div 1000000) - ((y - 1980) \div 4)

\* Math.floor(20.8431 + 0.242194 * (year - 1980) - Math.floor((year - 1980) / 4)),
\* in millionths
vernalEquinoxDay(y) ==
    ((20843100 + 242194 * (y - 1980)) \div 1000000) - ((y - 1980) \div 4)

\* Math.floor(23.2488 + 0.242194 * (year - 1980) - Math.floor((year - 1980) / 4))
autumnEquinoxDay(y) ==
    ((23248800 + 242194 * (y - 1980)) \div 1000000) - ((y - 1980) \div 4)

\* faulty variant: the date is added whatever the year
addAlways(cond, y, m, d) == {toDateKey(y, m, d)}

\* the add(month, day) calls made when the condition holds
addIf(cond, y, m, d) == IF cond THEN {toDateKey(y, m, d)} ELSE {}

\* faulty variant: the Olympic years follow the regular rules
ruleHolidaysRegular(y) ==
    addIf(y >= 1949, y, 1, 1)
    \cup (IF y >= 2000 THEN {toDateKey(y, 1, nthWeekdayOfMonth(y, 1, 1, 2))}
          ELSE addIf(y >= 1949, y, 1, 15))
    \cup addIf(y >= 1967, y, 2, 11)
    \cup addIf(y >= 2020, y, 2, 23)
    \cup addIf(y >= 1949, y, 4, 29)
    \cup addIf(y >= 1949, y, 5, 3)
    \cup addIf(y >= 2007, y, 5, 4)
    \cup addIf(y >= 1949, y, 5, 5)
    \cup (IF y >= 1949 THEN {toDateKey(y, 3, vernalEquinoxDay(y))} ELSE {})
    \cup (IF y >= 1948 THEN {toDateKey(y, 9, autumnEquinoxDay(y))} ELSE {})
    \cup (IF y >= 2003 THEN {toDateKey(y, 7, nthWeekdayOfMonth(y, 7, 1, 3))}
          ELSE addIf(y >= 1996, y, 7, 20))
    \cup addIf(y >= 2016, y, 8, 11)
    \cup (IF y >= 2003 THEN {toDateKey(y, 9, nthWeekdayOfMonth(y, 9, 1, 3))}
          ELSE addIf(y >= 1966, y, 9, 15))
    \cup (IF y >= 2000 THEN {toDateKey(y, 10, nthWeekdayOfMonth(y, 10, 1, 2))}
          ELSE addIf(y >= 1966, y, 10, 10))
    \cup addIf(y >= 1948, y, 11, 3)
    \cup addIf(y >= 1948, y, 11, 23)
    \cup addIf(y >= 1989 /\ y <= 2018, y, 12, 23)
    \cup addIf(y = 1990, y, 11, 12)
    \cup addIf(y = 1993, y, 6, 9)
    \cup addIf(y = 2019, y, 5, 1)
    \cup addIf(y = 2019, y, 10, 22)

\* the dates added by the rules before the bridge rule
ruleHolidays(y) ==
    addIf(y >= 1949, y, 1, 1)
    \cup (IF y >= 2000 THEN {toDateKey(y, 1, nthWeekdayOfMonth(y, 1, 1, 2))}
          ELSE addIf(y >= 1949, y, 1, 15))
    \cup addIf(y >= 1967, y, 2, 11)
    \cup addIf(y >= 2020, y, 2, 23)
    \cup addIf(y >= 1949, y, 4, 29)
    \cup addIf(y >= 1949, y, 5, 3)
    \cup addIf(y >= 2007, y, 5, 4)
    \cup addIf(y >= 1949, y, 5, 5)
    \cup (IF y >= 1949 THEN {toDateKey(y, 3, vernalEquinoxDay(y))} ELSE {})
    \cup (IF y >= 1948 THEN {toDateKey(y, 9, autumnEquinoxDay(y))} ELSE {})
    \cup (IF y = 2020 THEN {toDateKey(y, 7, 23)}
          ELSE IF y = 2021 THEN {toDateKey(y, 7, 22)}
          ELSE IF y >= 2003 THEN {toDateKey(y, 7, nthWeekdayOfMonth(y, 7, 1, 3))}
          ELSE addIf(y >= 1996, y, 7, 20))
    \cup (IF y = 2020 THEN {toDateKey(y, 8, 10)}
          ELSE IF y = 2021 THEN {toDateKey(y, 8, 8)}
          ELSE addIf(y >= 2016, y, 8, 11))
    \cup (IF y >= 2003 THEN {toDateKey(y, 9, nthWeekdayOfMonth(y, 9, 1, 3))}
          ELSE addIf(y >= 1966, y, 9, 15))
    \cup (IF y = 2020 THEN {toDateKey(y, 7, 24)}
          ELSE IF y = 2021 THEN {toDateKey(y, 7, 23)}
          ELSE IF y >= 2000 THEN {toDateKey(y, 10, nthWeekdayOfMonth(y, 10, 1, 2))}
          ELSE addIf(y >= 1966, y, 10, 10))
    \cup addIf(y >= 1948, y, 11, 3)
    \cup addIf(y >= 1948, y, 11, 23)
    \cup addIf(y >= 1989 /\ y <= 2018, y, 12, 23)
    \cup addIf(y = 1990, y, 11, 12)
    \cup addIf(y = 1993, y, 6, 9)
    \cup addIf(y = 2019, y, 5, 1)
    \cup addIf(y = 2019, y, 10, 22)

\* every day of the year, month by month
daysOfYear(y) ==
    {[year |-> y, month |-> m, day |-> d] : m \in 1..12, d \in 1..31}
        \ {date \in [year : {y}, month : 1..12, day : 29..31] :
               date.day > daysInMonth(y, date.month)}

\* faulty variant: one neighbouring holiday is enough
bridgeDaysEitherSide(y, set) ==
    IF y >= 1985
    THEN {dateKeyOf(date) : date \in
             {dt \in daysOfYear(y) :
                 /\ dateKeyOf(dt) \notin set
                 /\ (dateKeyOf(prevDate(dt)) \in set \/ dateKeyOf(nextDate(dt)) \in set)}}
    ELSE {}

\* the bridge set: days that are no holiday between two holidays
bridgeDays(y, set) ==
    IF y >= 1985
    THEN {dateKeyOf(date) : date \in
             {dt \in daysOfYear(y) :
                 /\ dateKeyOf(dt) \notin set
                 /\ dateKeyOf(prevDate(dt)) \in set
                 /\ dateKeyOf(nextDate(dt)) \in set}}
    ELSE {}

\* faulty variant: the day after the holiday is taken without looking at the set
substituteKeyNextDay(set, date) == dateKeyOf(nextDate(date))

\* the while loop: the first day after the date whose key the set does not hold
RECURSIVE substituteKey(_, _)
substituteKey(set, date) ==
    LET substitute == nextDate(date)
    IN  IF dateKeyOf(substitute) \notin set
        THEN dateKeyOf(substitute)
        ELSE substituteKey(set, substitute)

\* the for loop over the sorted snapshot, the set growing as it goes
RECURSIVE addSubstitutes(_, _, _)
addSubstitutes(set, current, i) ==
    IF i > Len(current) THEN set
    ELSE LET parsed == parseDateKey(current[i])
         IN  IF ~parsed.ok THEN addSubstitutes(set, current, i + 1)
             ELSE IF getDay(parsed.year, parsed.month, parsed.day) # 0
             THEN addSubstitutes(set, current, i + 1)
             ELSE addSubstitutes(
                      set \cup {substituteKey(set, [year |-> parsed.year,
                                                    month |-> parsed.month,
                                                    day |-> parsed.day])},
                      current, i + 1)

substituteHolidays(y, set) ==
    IF y >= 1973 THEN addSubstitutes(set, sortStrings(set), 1) ELSE set

buildJapaneseHolidaySet(y) ==
    TheOne({substituteHolidays(y, withBridges) :
               withBridges \in {rules \cup bridgeDays(y, rules) : rules \in {ruleHolidays(y)}}})

----------------------------------------------------------------------------
(* The date predicates and the holiday cache *)

\* buildJapaneseHolidaySet over the years of the model, each set built once
builtHolidaySets == [y \in FirstYear..LastYear |-> buildJapaneseHolidaySet(y)]

\* const holidaySet = buildJapaneseHolidaySet(year)
holidaySetOf(y) ==
    IF y \in DOMAIN builtHolidaySets THEN builtHolidaySets[y]
    ELSE buildJapaneseHolidaySet(y)

\* holidayCache.has(year)
cacheHas(cache, y) == y \in DOMAIN cache

\* faulty variant: the set is built and stored whether cached or not
getJapaneseHolidaySetRebuilds(cache, y) ==
    TheOne({[cache |-> (y :> holidaySet) @@ cache, set |-> holidaySet, built |-> {y}] :
               holidaySet \in {holidaySetOf(y)}})

\* the cache after the call, the set returned, and the years for which
\* buildJapaneseHolidaySet was called
getJapaneseHolidaySet(cache, y) ==
    IF cacheHas(cache, y) THEN [cache |-> cache, set |-> cache[y], built |-> {}]
    ELSE TheOne({[cache |-> (y :> holidaySet) @@ cache, set |-> holidaySet, built |-> {y}] :
                    holidaySet \in {holidaySetOf(y)}})

\* return getJapaneseHolidaySet(parsed.year).has(dateString)
holidayLookup(cache, parsed, text) ==
    TheOne({[cache |-> got.cache, ret |-> text \in got.set, built |-> got.built] :
               got \in {getJapaneseHolidaySet(cache, parsed.year)}})

\* the calls of buildJapaneseHolidaySet counted, year by year
countBuilds(counts, built) ==
    [y \in DOMAIN counts \cup built |->
        (IF y \in DOMAIN counts THEN counts[y] ELSE 0) + (IF y \in built THEN 1 ELSE 0)]

\* the cache after the call, the value returned and the years built
isJapaneseHoliday(cache, text) ==
    TheOne({IF ~parsed.ok THEN [cache |-> cache, ret |-> FALSE, built |-> {}]
            ELSE holidayLookup(cache, parsed, text) :
               parsed \in {parseDateKey(text)}})

\* faulty variant: Saturday is not counted
isWeekendSundayOnly(text) ==
    \E parsed \in {parseDateKey(text)} :
        parsed.ok /\ getDay(parsed.year, parsed.month, parsed.day) = 0

isWeekend(text) ==
    \E parsed \in {parseDateKey(text)} :
        IF ~parsed.ok THEN FALSE
        ELSE \E day \in {getDay(parsed.year, parsed.month, parsed.day)} :
                 day = 0 \/ day = 6

\* faulty variant: && in place of ||
isNonWorkingDayBoth(cache, text) ==
    IF isWeekend(text) THEN isJapaneseHoliday(cache, text)
    ELSE [cache |-> cache, ret |-> FALSE, built |-> {}]

\* isWeekend(dateString) || isJapaneseHoliday(dateString): the second call is
\* made only when the first returns false
isNonWorkingDay(cache, text) ==
    IF isWeekend(text) THEN [cache |-> cache, ret |-> TRUE, built |-> {}]
    ELSE isJapaneseHoliday(cache, text)

----------------------------------------------------------------------------
(* dateRange and daysBetween, with the date-fns functions they call *)

\* text.padStart(4, "0")
RECURSIVE padStart4(_)
padStart4(text) == IF Len(text) >= 4 THEN text ELSE padStart4(<<"0">> \o text)

\* the date a day number stands for: what the Date constructor makes of a day
\* count that runs past the end of a month or of a year
dateOfDayNumber(n) ==
    LET guess == ((n * 400) \div 146097) + 1
        y == CHOOSE c \in (guess - 1)..(guess + 1) :
                 dayNumber(c, 1, 1) <= n /\ n < dayNumber(c + 1, 1, 1)
        m == CHOOSE c \in 1..12 :
                 dayNumber(y, c, 1) <= n /\ n < dayNumber(y, c, 1) + daysInMonth(y, c)
    IN  [year |-> y, month |-> m, day |-> n - dayNumber(y, m, 1) + 1]

\* parseISO("YYYY-MM-DD"): local midnight of the named date
parseISO(text) ==
    [year |-> digitsValue(SubSeq(text, 1, 4), 1, 0),
     month |-> digitsValue(SubSeq(text, 6, 7), 1, 0),
     day |-> digitsValue(SubSeq(text, 9, 10), 1, 0)]

\* differenceInCalendarDays(dateLeft, dateRight): the days from the start of
\* dateRight's day to the start of dateLeft's day
differenceInCalendarDays(dateLeft, dateRight) ==
    dayNumber(dateLeft.year, dateLeft.month, dateLeft.day)
        - dayNumber(dateRight.year, dateRight.month, dateRight.day)

\* addDays(date, amount): date.setDate(date.getDate() + amount)
addDays(date, amount) ==
    dateOfDayNumber(dayNumber(date.year, date.month, date.day + amount))

\* format(date, "yyyy-MM-dd")
format(date) ==
    padStart4(numberToString(date.year)) \o <<Dash>> \o padStart2(numberToString(date.month))
        \o <<Dash>> \o padStart2(numberToString(date.day))

\* faulty variant: a negative length counts by its size
arrayLengthAbsolute(length) == IF length > 0 THEN length ELSE 0 - length

\* Array.from({ length }, ...): the number of elements made, none when the
\* length is not positive
arrayLength(length) == IF length > 0 THEN length ELSE 0

\* faulty variant: the end date is left out
dateRangeExclusive(startText, endText) ==
    LET startDate == parseISO(startText)
        endDate == parseISO(endText)
        days == differenceInCalendarDays(endDate, startDate)
    IN  [k \in 1..arrayLength(days) |-> format(addDays(startDate, k - 1))]

dateRange(startText, endText) ==
    LET startDate == parseISO(startText)
        endDate == parseISO(endText)
        days == differenceInCalendarDays(endDate, startDate)
    IN  [k \in 1..arrayLength(days + 1) |-> format(addDays(startDate, k - 1))]

\* faulty variant: the arguments of differenceInCalendarDays in the other order
daysBetweenSwapped(startText, endText) ==
    differenceInCalendarDays(parseISO(startText), parseISO(endText))

daysBetween(startText, endText) ==
    differenceInCalendarDays(parseISO(endText), parseISO(startText))

----------------------------------------------------------------------------
(* Idle values of the variables a specification does not use *)

IdlePatch ==
    currentRows = <<>> /\ normalized = <<>> /\ patches = <<>> /\ storedRows = <<>>
IdleNext == existingSortOrders = <<>> /\ nextSortOrder = 0
IdleOrder == orderedIds = <<>> /\ step = <<>> /\ renumbered = <<>> /\ IdlePatch /\ IdleNext
IdleMove == heap = <<>> /\ resultRef = 0 /\ fromIndex = 0 /\ toIndex = 0
IdleDrop ==
    draggedId = "" /\ overId = "" /\ position = "" /\ dropped = <<>> /\ redropped = <<>>
IdleLists == items = <<>> /\ IdleMove /\ IdleDrop
IdleHoliday == year = 0 /\ holidays = {} /\ bridged = {}
IdleQuery ==
    /\ dateString = <<>>
    /\ holidayCache = <<>>
    /\ cacheBefore = <<>>
    /\ lastCall = ""
    /\ answer = FALSE
    /\ buildCount = <<>>
IdleRange == rangeStart = <<>> /\ rangeEnd = <<>> /\ rangeDates = <<>> /\ dayCount = 0
IdleCalendar == IdleQuery /\ IdleRange
IdleStore == rowsBefore = <<>> /\ pending = {}
IdleEditor ==
    /\ rowsProp = <<>>
    /\ orderedRows = <<>>
    /\ dragState = <<>>
    /\ reorderBusy = FALSE
    /\ previousRows = <<>>
    /\ nextRows = <<>>
    /\ inFlight = 0
IdleUi == IdleStore /\ IdleEditor

----------------------------------------------------------------------------
(* SpecPatch: buildSortOrderPatches on drawn inputs, then the patches written *)

InitPatch ==
    /\ pc = "input"
    /\ step \in StepArgs
    /\ currentRows \in RowSeqs(step)
    /\ orderedIds \in SeqsUpTo(AllIds, MaxOrdered)
    /\ normalized = <<>>
    /\ patches = <<>>
    /\ storedRows = currentRows
    /\ renumbered = <<>>
    /\ IdleNext
    /\ IdleLists
    /\ IdleHoliday
    /\ IdleCalendar
    /\ IdleUi

BuildPatches ==
    /\ pc = "input"
    /\ normalized' = normalizedOrderedIds(currentRows, orderedIds)
    /\ patches' = buildSortOrderPatches(currentRows, orderedIds, step)
    /\ pc' = "built"
    /\ UNCHANGED <<currentRows, orderedIds, step, storedRows, renumbered, nextVars, listVars, holidayVars, calendarVars,
                   uiVars>>

WritePatches ==
    /\ pc = "built"
    /\ storedRows' = applyPatches(currentRows, patches, 1)
    /\ pc' = "written"
    /\ UNCHANGED <<currentRows, orderedIds, step, normalized, patches, renumbered, nextVars, listVars, holidayVars, calendarVars,
                   uiVars>>

NextPatch == BuildPatches \/ WritePatches

SpecPatch == InitPatch /\ [][NextPatch]_vars

----------------------------------------------------------------------------
(* SpecRenumber: renumberSortOrders on drawn ids and step *)

InitRenumber ==
    /\ pc = "input"
    /\ step \in StepArgs
    /\ orderedIds \in SeqsUpTo(AllIds, MaxOrdered)
    /\ renumbered = <<>>
    /\ IdlePatch
    /\ IdleNext
    /\ IdleLists
    /\ IdleHoliday
    /\ IdleCalendar
    /\ IdleUi

Renumber ==
    /\ pc = "input"
    /\ renumbered' = renumberSortOrders(orderedIds, step)
    /\ pc' = "renumbered"
    /\ UNCHANGED <<orderedIds, step, patchVars, nextVars, listVars, holidayVars, calendarVars,
                   uiVars>>

NextRenumber == Renumber

SpecRenumber == InitRenumber /\ [][NextRenumber]_vars

----------------------------------------------------------------------------
(* SpecNext: getNextSortOrder on drawn sort orders and step *)

InitNext ==
    /\ pc = "input"
    /\ step \in StepArgs
    /\ existingSortOrders \in SeqsUpTo({k * stepOf(step) : k \in -1..MaxRank}, MaxOrdered)
    /\ nextSortOrder = 0
    /\ orderedIds = <<>>
    /\ renumbered = <<>>
    /\ IdlePatch
    /\ IdleLists
    /\ IdleHoliday
    /\ IdleCalendar
    /\ IdleUi

GetNext ==
    /\ pc = "input"
    /\ nextSortOrder' = getNextSortOrder(existingSortOrders, step)
    /\ pc' = "next"
    /\ UNCHANGED <<existingSortOrders, orderedIds, step, renumbered, patchVars, listVars, holidayVars, calendarVars,
                   uiVars>>

NextNext == GetNext

SpecNext == InitNext /\ [][NextNext]_vars

----------------------------------------------------------------------------
(* SpecMove: moveItem on a drawn list and drawn indices *)

\* the reference of the argument array
itemsRef == 1

InitMove ==
    /\ pc = "input"
    /\ items \in SeqsUpTo(ItemPool, MaxItems)
    /\ heap = <<items>>
    /\ resultRef = 0
    /\ fromIndex \in -1..MaxItems
    /\ toIndex \in -1..MaxItems
    /\ IdleDrop
    /\ IdleOrder
    /\ IdleHoliday
    /\ IdleCalendar
    /\ IdleUi

MoveItem ==
    /\ pc = "input"
    /\ LET call == moveItem(heap, itemsRef, fromIndex, toIndex)
       IN  /\ heap' = call.heap
           /\ resultRef' = call.ret
    /\ pc' = "moved"
    /\ UNCHANGED <<items, fromIndex, toIndex, dropVars, orderVars, holidayVars, calendarVars,
                   uiVars>>

NextMove == MoveItem

SpecMove == InitMove /\ [][NextMove]_vars

----------------------------------------------------------------------------
(* SpecDrop: moveItemByDrop on a drawn list, drawn ids and a drawn position, *)
(* and a second drop on the list returned                                    *)

InitDrop ==
    /\ pc = "input"
    /\ items \in SeqsUpTo(ItemPool, MaxItems)
    /\ draggedId \in ItemIds \cup {UnknownId}
    /\ overId \in ItemIds \cup {UnknownId}
    /\ position \in {"before", "after"}
    /\ dropped = <<>>
    /\ redropped = <<>>
    /\ IdleMove
    /\ IdleOrder
    /\ IdleHoliday
    /\ IdleCalendar
    /\ IdleUi

DropItem ==
    /\ pc = "input"
    /\ dropped' = moveItemByDrop(items, draggedId, overId, position)
    /\ pc' = "dropped"
    /\ UNCHANGED <<items, draggedId, overId, position, redropped, moveVars, orderVars, holidayVars, calendarVars,
                   uiVars>>

\* the second drop of a round trip: the item that was dropped before the
\* target is dropped after it, in the list the first drop returned
DropAgainAfter ==
    /\ pc = "dropped"
    /\ position = "before"
    /\ redropped' = moveItemByDrop(dropped, draggedId, overId, "after")
    /\ pc' = "redropped"
    /\ UNCHANGED <<items, draggedId, overId, position, dropped, moveVars, orderVars, holidayVars, calendarVars,
                   uiVars>>

NextDrop == DropItem \/ DropAgainAfter

SpecDrop == InitDrop /\ [][NextDrop]_vars

----------------------------------------------------------------------------
(* SpecHoliday: buildJapaneseHolidaySet for a drawn year, stage by stage *)

InitHoliday ==
    /\ pc = "start"
    /\ year \in FirstYear..LastYear
    /\ holidays = {}
    /\ bridged = {}
    /\ IdleOrder
    /\ IdleLists
    /\ IdleCalendar
    /\ IdleUi

\* the fixed, Monday, equinox and one-off rules
ApplyRules ==
    /\ pc = "start"
    /\ holidays' = ruleHolidays(year)
    /\ pc' = "rules"
    /\ UNCHANGED <<year, bridged, orderVars, listVars, calendarVars, uiVars>>

\* the bridge rule
AddBridges ==
    /\ pc = "rules"
    /\ holidays' = holidays \cup bridgeDays(year, holidays)
    /\ pc' = "bridged"
    /\ UNCHANGED <<year, bridged, orderVars, listVars, calendarVars, uiVars>>

\* the substitute rule, after which the set is returned
AddSubstitutes ==
    /\ pc = "bridged"
    /\ holidays' = substituteHolidays(year, holidays)
    /\ bridged' = holidays
    /\ pc' = "built"
    /\ UNCHANGED <<year, orderVars, listVars, calendarVars, uiVars>>

NextHoliday == ApplyRules \/ AddBridges \/ AddSubstitutes

SpecHoliday == InitHoliday /\ [][NextHoliday]_vars

----------------------------------------------------------------------------
(* SpecQuery: the date predicates called on a drawn string, in any order and *)
(* any number of times, the cache empty at first                             *)

\* every YYYY-MM-DD with a month from 1 to 12 and a day from 1 to 31
QueryDates == {toDateKey(y, m, d) : y \in FirstYear..LastYear, m \in 1..12, d \in 1..31}

\* strings that are no YYYY-MM-DD: "", "2026", "2026-02", "x-02-22",
\* "2026-xx-22", "2026-02-2x", "2026-13-22", "2026-00-22", "2026-02-32",
\* "2026-02-00", "-02-11", "2026--22", "2026-02-", "2026-02-22-x", "2026-2-22"
OddStrings ==
    LET y == numberToString(2026)
        m == <<"0", "2">>
        d == <<"2", "2">>
        join3(a, b, c) == a \o <<Dash>> \o b \o <<Dash>> \o c
    IN  {<<>>, y, y \o <<Dash>> \o m,
         join3(<<"x">>, m, d), join3(y, <<"x", "x">>, d), join3(y, m, <<"2", "x">>),
         join3(y, <<"1", "3">>, d), join3(y, <<"0", "0">>, d),
         join3(y, m, <<"3", "2">>), join3(y, m, <<"0", "0">>),
         join3(<<>>, m, <<"1", "1">>), join3(y, <<>>, d), join3(y, m, <<>>),
         join3(y, m, d) \o <<Dash, "x">>, join3(y, <<"2">>, d)}

InitQuery ==
    /\ pc = "input"
    /\ dateString \in QueryDates \cup OddStrings
    /\ holidayCache = <<>>
    /\ cacheBefore = <<>>
    /\ lastCall = ""
    /\ answer = FALSE
    /\ buildCount = <<>>
    /\ IdleRange
    /\ IdleUi
    /\ IdleOrder
    /\ IdleLists
    /\ IdleHoliday

CallIsJapaneseHoliday ==
    /\ \E call \in {isJapaneseHoliday(holidayCache, dateString)} :
           /\ holidayCache' = call.cache
           /\ answer' = call.ret
           /\ buildCount' = countBuilds(buildCount, call.built)
    /\ cacheBefore' = holidayCache
    /\ lastCall' = "isJapaneseHoliday"
    /\ pc' = "answered"
    /\ UNCHANGED <<dateString, rangeVars, orderVars, listVars, holidayVars, uiVars>>

CallIsWeekend ==
    /\ answer' = isWeekend(dateString)
    /\ cacheBefore' = holidayCache
    /\ lastCall' = "isWeekend"
    /\ pc' = "answered"
    /\ UNCHANGED <<dateString, holidayCache, buildCount, rangeVars, orderVars, listVars,
                   holidayVars, uiVars>>

CallIsNonWorkingDay ==
    /\ \E call \in {isNonWorkingDay(holidayCache, dateString)} :
           /\ holidayCache' = call.cache
           /\ answer' = call.ret
           /\ buildCount' = countBuilds(buildCount, call.built)
    /\ cacheBefore' = holidayCache
    /\ lastCall' = "isNonWorkingDay"
    /\ pc' = "answered"
    /\ UNCHANGED <<dateString, rangeVars, orderVars, listVars, holidayVars, uiVars>>

NextQuery == CallIsJapaneseHoliday \/ CallIsWeekend \/ CallIsNonWorkingDay

SpecQuery == InitQuery /\ [][NextQuery]_vars

----------------------------------------------------------------------------
(* SpecCache: isJapaneseHoliday called again and again in one process *)

\* the strings of the calls: holidays, bridge and substitute days and working
\* days of four years, a day no month has, and two strings of no year
CacheDates ==
    {toDateKey(2019, 4, 30), toDateKey(2019, 5, 6), toDateKey(2019, 5, 7),
     toDateKey(2020, 7, 23), toDateKey(2020, 7, 20),
     toDateKey(2021, 8, 9), toDateKey(2021, 8, 11),
     toDateKey(2026, 2, 11), toDateKey(2026, 2, 12), toDateKey(2026, 2, 30),
     <<Dash, "0", "2", Dash, "1", "1">>, <<>>}

InitCache ==
    /\ pc = "loaded"
    /\ IdleCalendar
    /\ IdleUi
    /\ IdleOrder
    /\ IdleLists
    /\ IdleHoliday

QueryHoliday ==
    /\ \E text \in CacheDates :
           /\ dateString' = text
           /\ \E call \in {isJapaneseHoliday(holidayCache, text)} :
                  /\ holidayCache' = call.cache
                  /\ answer' = call.ret
                  /\ buildCount' = countBuilds(buildCount, call.built)
    /\ cacheBefore' = holidayCache
    /\ lastCall' = "isJapaneseHoliday"
    /\ pc' = "queried"
    /\ UNCHANGED <<rangeVars, orderVars, listVars, holidayVars, uiVars>>

NextCache == QueryHoliday

SpecCache == InitCache /\ [][NextCache]_vars

----------------------------------------------------------------------------
(* SpecRange: dateRange and daysBetween on two drawn dates *)

\* the dates drawn, as <<year, month, first day, last day>>: around a year
\* end, the end of a leap and of a common February, and the dates of the tests
RangeDays ==
    {<<2023, 12, 29, 31>>, <<2024, 1, 1, 2>>, <<2024, 2, 27, 29>>, <<2024, 3, 1, 2>>,
     <<2026, 2, 1, 5>>, <<2026, 2, 27, 28>>, <<2026, 3, 1, 1>>}

RangeDates ==
    UNION {{toDateKey(days[1], days[2], d) : d \in days[3]..days[4]} : days \in RangeDays}

InitRange ==
    /\ pc = "input"
    /\ rangeStart \in RangeDates
    /\ rangeEnd \in RangeDates
    /\ rangeDates = <<>>
    /\ dayCount = 0
    /\ IdleQuery
    /\ IdleUi
    /\ IdleOrder
    /\ IdleLists
    /\ IdleHoliday

DateRange ==
    /\ pc = "input"
    /\ rangeDates' = dateRange(rangeStart, rangeEnd)
    /\ pc' = "ranged"
    /\ UNCHANGED <<rangeStart, rangeEnd, dayCount, queryVars, orderVars, listVars, holidayVars,
                   uiVars>>

DaysBetween ==
    /\ pc = "input"
    /\ dayCount' = daysBetween(rangeStart, rangeEnd)
    /\ pc' = "counted"
    /\ UNCHANGED <<rangeStart, rangeEnd, rangeDates, queryVars, orderVars, listVars, holidayVars,
                   uiVars>>

NextRange == DateRange \/ DaysBetween

SpecRange == InitRange /\ [][NextRange]_vars

----------------------------------------------------------------------------
(* SpecStore: one client creating, reordering and deleting the rows of a
   master table, one operation after the other; the requests of a reorder
   reach the table in any order. The locals of an operation are kept until
   the next operation starts. *)

\* ids the table can give to a row
StoreIds == KnownIds

\* .order("sort_order", { ascending: true }): a row goes behind the rows that
\* are not greater
RECURSIVE insertBySortOrder(_, _, _)
insertBySortOrder(sorted, row, i) ==
    IF i > Len(sorted) \/ sorted[i].sortOrder > row.sortOrder
    THEN SubSeq(sorted, 1, i - 1) \o <<row>> \o SubSeq(sorted, i, Len(sorted))
    ELSE insertBySortOrder(sorted, row, i + 1)

RECURSIVE orderBySortOrder(_, _, _)
orderBySortOrder(table, i, sorted) ==
    IF i > Len(table) THEN sorted
    ELSE orderBySortOrder(table, i + 1, insertBySortOrder(sorted, table[i], 1))

\* GET /api/masters/channels, as loadMasters stores it in masters.channels
loadMasters(table) == orderBySortOrder(table, 1, <<>>)

\* masters.channels.map((channel) => channel.sort_order)
sortOrdersOf(rows) == [i \in 1..Len(rows) |-> rows[i].sortOrder]

\* nextRows.some((nextRow, index) => nextRow.id !== orderedRows[index]?.id)
orderChanged(nextList, list) ==
    \E i \in 1..Len(nextList) : i > Len(list) \/ nextList[i].id # list[i].id

\* nextRows.map((nextRow) => nextRow.id)
idsOfRows(rows) == [i \in 1..Len(rows) |-> rows[i].id]

\* .delete().eq("id", id)
deleteRow(table, id) ==
    LET Other(row) == row.id # id
    IN  SelectSeq(table, Other)

InitStore ==
    /\ pc = "loaded"
    /\ step \in StepArgs
    /\ storedRows = <<>>
    /\ currentRows = <<>>
    /\ orderedIds = <<>>
    /\ normalized = <<>>
    /\ patches = <<>>
    /\ renumbered = <<>>
    /\ IdleNext
    /\ IdleLists
    /\ IdleHoliday
    /\ IdleCalendar
    /\ IdleUi

\* onCreate: createMaster("channels", name, { sortOrder: getNextSortOrder(...) }),
\* the row inserted, then loadMasters
CreateMaster ==
    /\ pc # "reordering"
    /\ \E id \in StoreIds \ Range(idsOfRows(storedRows)) :
           \E next \in {getNextSortOrder(sortOrdersOf(currentRows), step)} :
               /\ next <= MaxStoredRank * stepOf(step)
               /\ existingSortOrders' = sortOrdersOf(currentRows)
               /\ nextSortOrder' = next
               /\ storedRows' = Append(storedRows, [id |-> id, sortOrder |-> next])
               /\ currentRows' = loadMasters(Append(storedRows, [id |-> id, sortOrder |-> next]))
    /\ rowsBefore' = storedRows
    /\ orderedIds' = <<>>
    /\ patches' = <<>>
    /\ pending' = {}
    /\ pc' = "created"
    /\ UNCHANGED <<step, normalized, renumbered, listVars, holidayVars, calendarVars,
                   editorVars>>

\* onDelete: deleteMaster("channels", id), then loadMasters
DeleteMaster ==
    /\ pc # "reordering"
    /\ \E id \in Range(idsOfRows(currentRows)) :
           /\ storedRows' = deleteRow(storedRows, id)
           /\ currentRows' = loadMasters(deleteRow(storedRows, id))
    /\ rowsBefore' = storedRows
    /\ orderedIds' = <<>>
    /\ patches' = <<>>
    /\ pending' = {}
    /\ existingSortOrders' = <<>>
    /\ nextSortOrder' = 0
    /\ pc' = "deleted"
    /\ UNCHANGED <<step, normalized, renumbered, listVars, holidayVars, calendarVars,
                   editorVars>>

\* onReorder with the ids of a drop that changed the displayed order:
\* reorderMasters builds the patches and sends one request for each
StartReorder ==
    /\ pc # "reordering"
    /\ \E dragged, over \in Range(idsOfRows(currentRows)), pos \in {"before", "after"} :
           \E movedRows \in {moveItemByDrop(currentRows, dragged, over, pos)} :
               /\ orderChanged(movedRows, currentRows)
               /\ orderedIds' = idsOfRows(movedRows)
               /\ \E built \in {buildSortOrderPatches(currentRows, idsOfRows(movedRows), step)} :
                      /\ patches' = built
                      /\ pending' = 1..Len(built)
                      /\ pc' = IF built = <<>> THEN "reordered" ELSE "reordering"
    /\ rowsBefore' = storedRows
    /\ existingSortOrders' = <<>>
    /\ nextSortOrder' = 0
    /\ UNCHANGED <<currentRows, storedRows, step, normalized, renumbered, listVars,
                   holidayVars, calendarVars, editorVars>>

\* one request of Promise.all reaches the table; after the last one
\* reorderMasters goes on to loadMasters
ApplyPatch ==
    /\ pc = "reordering"
    /\ \E k \in pending :
           \E table \in {applyPatch(storedRows, patches[k])} :
               /\ storedRows' = table
               /\ pending' = pending \ {k}
               /\ IF pending = {k}
                  THEN currentRows' = loadMasters(table) /\ pc' = "reordered"
                  ELSE UNCHANGED <<currentRows, pc>>
    /\ UNCHANGED <<orderedIds, step, normalized, patches, renumbered, nextVars, rowsBefore,
                   listVars, holidayVars, calendarVars, editorVars>>

NextStore == CreateMaster \/ DeleteMaster \/ StartReorder \/ ApplyPatch

SpecStore == InitStore /\ [][NextStore]_vars

----------------------------------------------------------------------------
(* SpecEditor: one MasterTableEditor with onReorder, a single pointer; other
   rows may arrive from the parent at any time, and a reorder request may
   resolve or reject *)

\* the rows prop: two or three rows in the order the server returns them
EditorRows ==
    {renumberSortOrders(ids, <<>>) :
        ids \in {list \in SeqsUpTo(KnownIds, Cardinality(KnownIds)) :
                    Len(list) >= 2 /\ \A i, j \in 1..Len(list) : list[i] = list[j] => i = j}}

\* faulty variant: a reorder under way does not lock the handle
reorderLockedNever(busyFlag) == FALSE

\* const reorderLocked = busy || rowBusyId !== null || reorderBusy, with no
\* create, save or delete under way
reorderLocked(busyFlag) == busyFlag

\* useEffect(() => { if (dragState || reorderBusy) return; setOrderedRows(rows) }):
\* the rows displayed once the effect has run
syncedRows(drag, busyFlag, received, shown) ==
    IF drag # <<>> \/ busyFlag THEN shown ELSE received

InitEditor ==
    /\ pc = "shown"
    /\ rowsProp \in EditorRows
    /\ orderedRows = rowsProp
    /\ dragState = <<>>
    /\ reorderBusy = FALSE
    /\ previousRows = <<>>
    /\ nextRows = <<>>
    /\ inFlight = 0
    /\ IdleStore
    /\ IdleOrder
    /\ IdleLists
    /\ IdleHoliday
    /\ IdleCalendar

\* the parent renders the editor with other rows
RowsArrive ==
    /\ \E received \in EditorRows \ {rowsProp} :
           /\ rowsProp' = received
           /\ orderedRows' = syncedRows(dragState, reorderBusy, received, orderedRows)
    /\ pc' = "shown"
    /\ UNCHANGED <<dragState, reorderBusy, previousRows, nextRows, inFlight, storeVars,
                   orderVars, listVars, holidayVars, calendarVars>>

\* onPointerDown on the handle of a displayed row
PointerDown ==
    /\ dragState = <<>>
    /\ ~reorderLocked(reorderBusy)
    /\ \E rowId \in Range(idsOfRows(orderedRows)) :
           dragState' = <<[rowId |-> rowId, overId |-> rowId, position |-> "after"]>>
    /\ pc' = "dragging"
    /\ UNCHANGED <<rowsProp, orderedRows, reorderBusy, previousRows, nextRows, inFlight,
                   storeVars, orderVars, listVars, holidayVars, calendarVars>>

\* onPointerMove over the upper or lower half of a displayed row
PointerMove ==
    /\ dragState # <<>>
    /\ \E over \in Range(idsOfRows(orderedRows)), pos \in {"before", "after"} :
           /\ ~(dragState[1].overId = over /\ dragState[1].position = pos)
           /\ dragState' = <<[dragState[1] EXCEPT !.overId = over, !.position = pos]>>
    /\ pc' = "dragging"
    /\ UNCHANGED <<rowsProp, orderedRows, reorderBusy, previousRows, nextRows, inFlight,
                   storeVars, orderVars, listVars, holidayVars, calendarVars>>

\* onPointerUp: the drop; a drop that changes the order starts a request
PointerUp ==
    /\ dragState # <<>>
    /\ dragState' = <<>>
    /\ \E movedRows \in {moveItemByDrop(orderedRows, dragState[1].rowId, dragState[1].overId,
                                         dragState[1].position)} :
           IF ~orderChanged(movedRows, orderedRows)
           THEN /\ orderedRows' = syncedRows(<<>>, reorderBusy, rowsProp, orderedRows)
                /\ pc' = "dropped"
                /\ UNCHANGED <<reorderBusy, previousRows, nextRows, inFlight>>
           ELSE /\ previousRows' = orderedRows
                /\ nextRows' = movedRows
                /\ orderedRows' = movedRows
                /\ reorderBusy' = TRUE
                /\ inFlight' = inFlight + 1
                /\ pc' = "requested"
    /\ UNCHANGED <<rowsProp, storeVars, orderVars, listVars, holidayVars, calendarVars>>

\* onPointerCancel
PointerCancel ==
    /\ dragState # <<>>
    /\ dragState' = <<>>
    /\ orderedRows' = syncedRows(<<>>, reorderBusy, rowsProp, orderedRows)
    /\ pc' = "dropped"
    /\ UNCHANGED <<rowsProp, reorderBusy, previousRows, nextRows, inFlight, storeVars,
                   orderVars, listVars, holidayVars, calendarVars>>

\* await onReorder(...) returns: finally, then the effect
RequestResolves ==
    /\ inFlight > 0
    /\ inFlight' = inFlight - 1
    /\ reorderBusy' = FALSE
    /\ orderedRows' = syncedRows(dragState, FALSE, rowsProp, orderedRows)
    /\ pc' = "resolved"
    /\ UNCHANGED <<rowsProp, dragState, previousRows, nextRows, storeVars, orderVars,
                   listVars, holidayVars, calendarVars>>

\* await onReorder(...) throws: catch, finally, then the effect
RequestRejects ==
    /\ inFlight > 0
    /\ inFlight' = inFlight - 1
    /\ reorderBusy' = FALSE
    /\ orderedRows' = syncedRows(dragState, FALSE, rowsProp, previousRows)
    /\ pc' = "rejected"
    /\ UNCHANGED <<rowsProp, dragState, previousRows, nextRows, storeVars, orderVars,
                   listVars, holidayVars, calendarVars>>

NextEditor ==
    \/ RowsArrive
    \/ PointerDown
    \/ PointerMove
    \/ PointerUp
    \/ PointerCancel
    \/ RequestResolves
    \/ RequestRejects

SpecEditor == InitEditor /\ [][NextEditor]_vars

----------------------------------------------------------------------------
(* Vocabulary of the properties, stated without the operators of the engine *)

IdsOf(rows) == {rows[i].id : i \in 1..Len(rows)}

SortOrderOf(rows, id) == (CHOOSE r \in Range(rows) : r.id = id).sortOrder

PositionOf(ids, id) == CHOOSE i \in 1..Len(ids) : ids[i] = id

\* the display order a reconciliation aims at: the first occurrences of the known
\* ids of orderedIds, then the rows orderedIds omits, in their own order
DesiredOrder(rows, ids) ==
    LET FirstKnown(i) == ids[i] \in IdsOf(rows) /\ \A j \in 1..(i - 1) : ids[j] # ids[i]
        Omitted(i) == rows[i].id \notin Range(ids)
        kept == SelectSeq([i \in 1..Len(ids) |-> i], FirstKnown)
        rest == SelectSeq([i \in 1..Len(rows) |-> i], Omitted)
    IN  [k \in 1..Len(kept) |-> ids[kept[k]]] \o [k \in 1..Len(rest) |-> rows[rest[k]].id]

\* ids lists every row of rows once, in strictly ascending current sort order
IsCurrentDisplayOrder(rows, ids) ==
    /\ Len(ids) = Len(rows)
    /\ Range(ids) = IdsOf(rows)
    /\ \A i, j \in 1..Len(ids) :
          i < j => SortOrderOf(rows, ids[i]) < SortOrderOf(rows, ids[j])

\* the current sort orders, read along ids, are step, 2*step, ..., n*step
IsRenumbered(rows, ids, s) ==
    \A i \in 1..Len(ids) : SortOrderOf(rows, ids[i]) = i * stepOf(s)

MaxOf(values) == CHOOSE m \in Range(values) : \A v \in Range(values) : v <= m

\* how many times x occurs in the list
CountOf(list, x) == Cardinality({i \in 1..Len(list) : list[i] = x})

IsPermutation(list, other) ==
    /\ Len(list) = Len(other)
    /\ \A x \in Range(list) \cup Range(other) : CountOf(list, x) = CountOf(other, x)

\* the list without its element at 1-based position p
WithoutPosition(list, p) ==
    [k \in 1..(Len(list) - 1) |-> IF k < p THEN list[k] ELSE list[k + 1]]

ItemIdsOf(list) == {list[i].id : i \in 1..Len(list)}

UniqueIds(list) == \A i, j \in 1..Len(list) : list[i].id = list[j].id => i = j

\* 1-based position of the item with the id, in a list with unique ids
PlaceOf(list, id) == CHOOSE i \in 1..Len(list) : list[i].id = id

InRange(list, i) == 0 <= i /\ i < Len(list)

----------------------------------------------------------------------------
(* Properties of the ordering engine *)

\* C1: once the patches of buildSortOrderPatches are written to currentRows, the
\* sort orders read in the normalized display order (known ids of orderedIds
\* first, then the omitted rows) are step, 2*step, ..., n*step.
C1_SpacedByStep ==
    pc = "written" =>
        LET order == DesiredOrder(currentRows, orderedIds)
        IN  /\ Len(order) = Len(storedRows)
            /\ \A i \in 1..Len(storedRows) : storedRows[i].id = currentRows[i].id
            /\ \A i \in 1..Len(order) :
                  SortOrderOf(storedRows, order[i]) = i * stepOf(step)
            /\ \A i \in 1..(Len(order) - 1) :
                  SortOrderOf(storedRows, order[i + 1])
                      = SortOrderOf(storedRows, order[i]) + stepOf(step)

\* C1 witness: three rows, some but not all patched, with an unknown id, a
\* repeated id and an omitted row in orderedIds
C1_Witness ==
    /\ pc = "written"
    /\ Len(currentRows) = 3
    /\ Len(patches) \in 1..2
    /\ UnknownId \in Range(orderedIds)
    /\ \E i \in 1..Len(currentRows) : currentRows[i].id \notin Range(orderedIds)
    /\ storedRows # currentRows

\* C2: the result holds exactly the changed rows: {id, sortOrder} is returned iff
\* id is a row whose renumbered value differs from its current sortOrder, and
\* no id is returned twice.
C2_ExactlyChangedRows ==
    pc \in {"built", "written"} =>
        LET order == DesiredOrder(currentRows, orderedIds)
            Renumbered(id) == PositionOf(order, id) * stepOf(step)
        IN  /\ \A k \in 1..Len(patches) :
                  /\ patches[k].id \in IdsOf(currentRows)
                  /\ patches[k].sortOrder = Renumbered(patches[k].id)
                  /\ patches[k].sortOrder # SortOrderOf(currentRows, patches[k].id)
            /\ \A id \in IdsOf(currentRows) :
                  Renumbered(id) # SortOrderOf(currentRows, id)
                      => [id |-> id, sortOrder |-> Renumbered(id)] \in Range(patches)
            /\ \A j, k \in 1..Len(patches) : patches[j].id = patches[k].id => j = k

\* C2 witness: three rows of which exactly one changes
C2_Witness ==
    /\ pc = "built"
    /\ Len(currentRows) = 3
    /\ Len(patches) = 1
    /\ Len(orderedIds) = 2

\* the first occurrences of the ids of ids that rows knows, in the order of ids
FirstKnownIds(rows, ids) ==
    LET FirstKnown(i) == ids[i] \in IdsOf(rows) /\ \A j \in 1..(i - 1) : ids[j] # ids[i]
        kept == SelectSeq([i \in 1..Len(ids) |-> i], FirstKnown)
    IN  [k \in 1..Len(kept) |-> ids[kept[k]]]

\* C18: ids of orderedIds that are not in currentRows and second or later
\* occurrences of an id have no effect: the patches are those returned for
\* orderedIds with the unknown ids removed and only the first occurrence of
\* each id kept, and no patch carries an id that currentRows does not hold.
C18_UnknownAndRepeatedIdsIgnored ==
    pc = "built" =>
        /\ patches = buildSortOrderPatches(currentRows,
                                           FirstKnownIds(currentRows, orderedIds), step)
        /\ \A k \in 1..Len(patches) : patches[k].id \in IdsOf(currentRows)
        /\ UnknownId \notin Range(normalized)

\* C18 witness: an unknown id and a repeated id among three ordered ids, and
\* patches returned
C18_Witness ==
    /\ pc = "built"
    /\ Len(currentRows) = 3
    /\ Len(orderedIds) = 3
    /\ orderedIds[1] = UnknownId
    /\ orderedIds[2] = orderedIds[3]
    /\ orderedIds[2] = currentRows[3].id
    /\ FirstKnownIds(currentRows, orderedIds) = <<currentRows[3].id>>
    /\ patches # <<>>

\* C19: rows whose ids orderedIds does not list are never dropped: in the
\* normalized order every id of currentRows occurs exactly once, the rows that
\* are missing from orderedIds come after all ids taken from orderedIds and
\* keep their relative order of currentRows; written back, every row is still
\* stored and each missing row sorts after every listed one.
C19_MissingRowsKeptAtTail ==
    LET IsMissing(id) == id \notin Range(orderedIds)
    IN  /\ pc \in {"built", "written"} =>
              /\ \A id \in IdsOf(currentRows) : CountOf(normalized, id) = 1
              /\ Range(normalized) = IdsOf(currentRows)
              /\ \A i, j \in 1..Len(normalized) :
                    (~IsMissing(normalized[i]) /\ IsMissing(normalized[j])) => i < j
              /\ \A i, j \in 1..Len(currentRows) :
                    (i < j /\ IsMissing(currentRows[i].id) /\ IsMissing(currentRows[j].id))
                        => PositionOf(normalized, currentRows[i].id)
                              < PositionOf(normalized, currentRows[j].id)
        /\ pc = "written" =>
              /\ IdsOf(storedRows) = IdsOf(currentRows)
              /\ \A listed, missing \in IdsOf(currentRows) :
                    (~IsMissing(listed) /\ IsMissing(missing))
                        => SortOrderOf(storedRows, listed) < SortOrderOf(storedRows, missing)

\* C19 witness: the last row is moved to the front and the two rows that are
\* not listed follow it in their own order
C19_Witness ==
    /\ pc = "written"
    /\ Len(currentRows) = 3
    /\ orderedIds = <<currentRows[3].id>>
    /\ normalized = <<currentRows[3].id, currentRows[1].id, currentRows[2].id>>
    /\ SortOrderOf(storedRows, currentRows[3].id) < SortOrderOf(storedRows, currentRows[1].id)
    /\ SortOrderOf(storedRows, currentRows[1].id) < SortOrderOf(storedRows, currentRows[2].id)

\* C3 as stated: orderedIds listing the rows in their current display order
\* (ascending current sortOrder) gives the empty sequence.
C3_UnchangedOrderIsEmpty ==
    (pc = "built" /\ IsCurrentDisplayOrder(currentRows, orderedIds))
        => patches = <<>>

\* C3 amended: orderedIds listing the rows in their current display order gives
\* the empty sequence when the current sort orders, read in that order, are
\* already step, 2*step, ..., n*step.
C3_RenumberedOrderIsEmpty ==
    (/\ pc = "built"
     /\ IsCurrentDisplayOrder(currentRows, orderedIds)
     /\ IsRenumbered(currentRows, orderedIds, step))
        => patches = <<>>

\* C3 witness: a=10, b=20, c=30 reconciled against a, b, c with the default step
C3_Witness ==
    /\ pc = "built"
    /\ step = <<>>
    /\ Len(currentRows) = 3
    /\ IsCurrentDisplayOrder(currentRows, orderedIds)
    /\ IsRenumbered(currentRows, orderedIds, step)
    /\ patches = <<>>

\* C8: renumberSortOrders keeps the length, the ids and their order, and gives
\* the entry at 0-based position i the sort order (i + 1) * step.
C8_RenumberByPosition ==
    pc = "renumbered" =>
        /\ Len(renumbered) = Len(orderedIds)
        /\ \A p \in 1..Len(orderedIds) :
              LET i == p - 1
              IN  /\ renumbered[p].id = orderedIds[p]
                  /\ renumbered[p].sortOrder = (i + 1) * stepOf(step)

\* C8 witness: three ids, the first repeated at the end, default step
C8_Witness ==
    /\ pc = "renumbered"
    /\ step = <<>>
    /\ Len(orderedIds) = 3
    /\ orderedIds[1] = orderedIds[3]
    /\ renumbered[3].sortOrder = 30

\* C9: getNextSortOrder is max(existing) + step when some value is > 0 and step
\* otherwise; [] gives 10 and [10, 30, 20] gives 40 with the default step.
C9_NextAfterMax ==
    pc = "next" =>
        /\ IF \E i \in 1..Len(existingSortOrders) : existingSortOrders[i] > 0
           THEN nextSortOrder = MaxOf(existingSortOrders) + stepOf(step)
           ELSE nextSortOrder = stepOf(step)
        /\ (step = <<>> /\ existingSortOrders = <<>>) => nextSortOrder = 10
        /\ (step = <<>> /\ existingSortOrders = <<10, 30, 20>>) => nextSortOrder = 40

\* C9 witness: [10, 30, 20] with the default step
C9_Witness ==
    /\ pc = "next"
    /\ step = <<>>
    /\ existingSortOrders = <<10, 30, 20>>
    /\ nextSortOrder = 40

----------------------------------------------------------------------------
(* Properties of moveItem and moveItemByDrop *)

\* C4: with unique ids and two distinct ids of the list, moveItemByDrop returns
\* a permutation in which the dragged item is immediately before the target
\* ("before") or immediately after it ("after"), the other items keeping their
\* relative order.
C4_DropNextToTarget ==
    (/\ pc = "dropped"
     /\ UniqueIds(items)
     /\ draggedId # overId
     /\ draggedId \in ItemIdsOf(items)
     /\ overId \in ItemIdsOf(items))
        => /\ IsPermutation(dropped, items)
           /\ UniqueIds(dropped)
           /\ draggedId \in ItemIdsOf(dropped) /\ overId \in ItemIdsOf(dropped)
           /\ position = "before"
                 => PlaceOf(dropped, draggedId) + 1 = PlaceOf(dropped, overId)
           /\ position = "after"
                 => PlaceOf(dropped, draggedId) = PlaceOf(dropped, overId) + 1
           /\ WithoutPosition(dropped, PlaceOf(dropped, draggedId))
                 = WithoutPosition(items, PlaceOf(items, draggedId))

\* C4 witness: the first of four items dropped after the third
C4_Witness ==
    /\ pc = "dropped"
    /\ Len(items) = 4
    /\ UniqueIds(items)
    /\ draggedId = items[1].id
    /\ overId = items[3].id
    /\ position = "after"
    /\ dropped = <<items[2], items[3], items[1], items[4]>>

\* C5: when draggedId equals overId, or either id is not in the list,
\* moveItemByDrop returns the items of the input in the same order, and the
\* call completes with a list of items.
C5_StaleDropIsNoOp ==
    (/\ pc = "dropped"
     /\ \/ draggedId = overId
        \/ draggedId \notin ItemIdsOf(items)
        \/ overId \notin ItemIdsOf(items))
        => /\ dropped = items
           /\ Undefined \notin Range(dropped)

\* C5 witness: an item of the list dropped on an id the list does not hold
C5_Witness ==
    /\ pc = "dropped"
    /\ Len(items) = 3
    /\ draggedId \in ItemIdsOf(items)
    /\ overId = UnknownId
    /\ dropped = items

\* C6: for in-range indices fromIndex # toIndex, moveItem returns a permutation
\* of the same length in which the element that was at fromIndex is at toIndex
\* and the other elements keep their relative order.
C6_MoveIsPermutation ==
    (/\ pc = "moved"
     /\ InRange(items, fromIndex)
     /\ InRange(items, toIndex)
     /\ fromIndex # toIndex)
        => LET result == heap[resultRef]
           IN  /\ Len(result) = Len(items)
               /\ IsPermutation(result, items)
               /\ result[toIndex + 1] = items[fromIndex + 1]
               /\ WithoutPosition(result, toIndex + 1)
                     = WithoutPosition(items, fromIndex + 1)

\* C6 witness: a, b, c, d with index 1 moved to index 3 gives a, c, d, b
C6_Witness ==
    /\ pc = "moved"
    /\ Len(items) = 4
    /\ UniqueIds(items)
    /\ fromIndex = 1
    /\ toIndex = 3
    /\ heap[resultRef] = <<items[1], items[3], items[4], items[2]>>

\* C7: with equal indices or an index outside [0, length), moveItem returns a
\* new sequence element-wise equal to the input; in every case the input
\* sequence is left unmodified and the call completes with a list of items.
C7_DegenerateMoveIsCopy ==
    pc = "moved" =>
        /\ heap[itemsRef] = items
        /\ resultRef # itemsRef
        /\ resultRef \in 1..Len(heap)
        /\ Undefined \notin Range(heap[resultRef])
        /\ (fromIndex = toIndex \/ ~InRange(items, fromIndex) \/ ~InRange(items, toIndex))
              => heap[resultRef] = items

\* C7 witness: a real move of three items that leaves the argument as it was
C7_Witness ==
    /\ pc = "moved"
    /\ Len(items) = 3
    /\ fromIndex = 2
    /\ toIndex = 0
    /\ heap[itemsRef] = items
    /\ heap[resultRef] # items

\* C17: for a list of 3 or more items with distinct ids and two distinct items
\* A and B of it, dropping A before B and then, in the result, A after B gives
\* a list in which A is immediately after B, equal to the list that dropping
\* A after B in the original list gives.
C17_BeforeThenAfter ==
    (/\ pc = "redropped"
     /\ Len(items) >= 3
     /\ UniqueIds(items)
     /\ draggedId # overId
     /\ draggedId \in ItemIdsOf(items)
     /\ overId \in ItemIdsOf(items))
        => /\ IsPermutation(redropped, items)
           /\ PlaceOf(dropped, draggedId) + 1 = PlaceOf(dropped, overId)
           /\ PlaceOf(redropped, draggedId) = PlaceOf(redropped, overId) + 1
           /\ WithoutPosition(redropped, PlaceOf(redropped, draggedId))
                 = WithoutPosition(items, PlaceOf(items, draggedId))
           /\ redropped = moveItemByDrop(items, draggedId, overId, "after")

\* C17 witness: the last of four items dropped before the first and then
\* after it ends up second
C17_Witness ==
    /\ pc = "redropped"
    /\ Len(items) = 4
    /\ UniqueIds(items)
    /\ draggedId = items[4].id
    /\ overId = items[1].id
    /\ dropped = <<items[4], items[1], items[2], items[3]>>
    /\ redropped = <<items[1], items[4], items[2], items[3]>>

----------------------------------------------------------------------------
(* Properties of the holiday set *)

\* the first day after the date whose key is not in the set
RECURSIVE FirstDayOutside(_, _)
FirstDayOutside(set, date) ==
    IF dateKeyOf(nextDate(date)) \notin set THEN nextDate(date)
    ELSE FirstDayOutside(set, nextDate(date))

\* the days of the year that are in the set and fall on a Sunday
SundaysIn(y, set) ==
    {date \in daysOfYear(y) :
        dateKeyOf(date) \in set /\ getDay(date.year, date.month, date.day) = 0}

\* C10: from 1973 on, for every holiday H of rules 1-9 on a Sunday, the first
\* day after H that is no rules-1-9 holiday (past every holiday that directly
\* follows H) is in the final set; before 1973 no substitute is added.
C10_SubstituteAfterSunday ==
    pc = "built" =>
        /\ year >= 1973 =>
              \A H \in SundaysIn(year, bridged) :
                  dateKeyOf(FirstDayOutside(bridged, H)) \in holidays
        /\ year < 1973 => holidays = bridged

\* C10 witness: 2026-05-03 is a Sunday followed by the holidays 05-04 and
\* 05-05, and 05-06 is added
C10_Witness ==
    /\ pc = "built"
    /\ year = 2026
    /\ [year |-> 2026, month |-> 5, day |-> 3] \in SundaysIn(year, bridged)
    /\ toDateKey(2026, 5, 4) \in bridged
    /\ toDateKey(2026, 5, 5) \in bridged
    /\ toDateKey(2026, 5, 6) \in holidays \ bridged

----------------------------------------------------------------------------
(* The calendar and the rule table, stated without the operators of the engine *)

\* Zeller's congruence for the Gregorian calendar: 0 is Saturday, 1 Sunday,
\* 2 Monday, ..., 6 Friday
Weekday(y, m, d) ==
    LET a == IF m < 3 THEN y - 1 ELSE y
        mm == IF m < 3 THEN m + 12 ELSE m
    IN  (d + ((13 * (mm + 1)) \div 5) + a + (a \div 4) - (a \div 100) + (a \div 400)) % 7

IsSaturdayOrSunday(date) == Weekday(date.year, date.month, date.day) \in {0, 1}
IsSunday(date) == Weekday(date.year, date.month, date.day) = 1
IsMonday(date) == Weekday(date.year, date.month, date.day) = 2

MonthLength(y, m) ==
    IF m \in {1, 3, 5, 7, 8, 10, 12} THEN 31
    ELSE IF m # 2 THEN 30
    ELSE IF y % 400 = 0 \/ (y % 4 = 0 /\ y % 100 # 0) THEN 29 ELSE 28

\* a date of the calendar
ValidDate(date) ==
    date.month \in 1..12 /\ date.day \in 1..MonthLength(date.year, date.month)

\* the text is ten characters DDDD-DD-DD
IsDateText(text) ==
    /\ Len(text) = 10
    /\ text[5] = Dash /\ text[8] = Dash
    /\ \A i \in {1, 2, 3, 4, 6, 7, 9, 10} : IsDigit(text[i])

\* the year, month and day such a text names
TextDate(text) ==
    [year |-> 1000 * DigitValue(text[1]) + 100 * DigitValue(text[2])
                 + 10 * DigitValue(text[3]) + DigitValue(text[4]),
     month |-> 10 * DigitValue(text[6]) + DigitValue(text[7]),
     day |-> 10 * DigitValue(text[9]) + DigitValue(text[10])]

DateOf(y, m, d) == [year |-> y, month |-> m, day |-> d]

\* rule 1: <<month, day, effective year>>
FixedDateRules ==
    {<<1, 1, 1949>>, <<2, 11, 1967>>, <<2, 23, 2020>>, <<4, 29, 1949>>,
     <<5, 3, 1949>>, <<5, 4, 2007>>, <<5, 5, 1949>>, <<11, 3, 1948>>,
     <<11, 23, 1948>>}

UnderFixedDateRule(date) ==
    \E r \in FixedDateRules :
        date.month = r[1] /\ date.day = r[2] /\ date.year >= r[3]

\* rule 8: the month/day pairs of the one-off dates, and the years they hold in
OneOffDays == {<<12, 23>>, <<11, 12>>, <<6, 9>>, <<5, 1>>, <<10, 22>>}

OneOffYears(m, d) ==
    IF <<m, d>> = <<12, 23>> THEN 1989..2018
    ELSE IF <<m, d>> = <<11, 12>> THEN {1990}
    ELSE IF <<m, d>> = <<6, 9>> THEN {1993}
    ELSE IF <<m, d>> \in {<<5, 1>>, <<10, 22>>} THEN {2019}
    ELSE {}

UnderOneOffRule(date) == date.year \in OneOffYears(date.month, date.day)

\* the day is the nth Monday of its month
IsNthMonday(date, nth) ==
    IsMonday(date) /\ date.day \in (7 * (nth - 1) + 1)..(7 * nth)

\* rule 3: floor(base + 0.242194 (Y - 1980) - floor((Y - 1980) / 4)), the base
\* in millionths
EquinoxDayOfMonth(base, y) ==
    ((base + 242194 * (y - 1980)) \div 1000000) - ((y - 1980) \div 4)

\* rules 2 to 7
UnderMoveableRule(date) ==
    LET y == date.year
        m == date.month
        d == date.day
    IN  \/ m = 1 /\ (IF y >= 2000 THEN IsNthMonday(date, 2) ELSE y >= 1949 /\ d = 15)
        \/ m = 3 /\ y >= 1949 /\ d = EquinoxDayOfMonth(20843100, y)
        \/ m = 9 /\ y >= 1948 /\ d = EquinoxDayOfMonth(23248800, y)
        \/ m = 7 /\ (IF y = 2020 THEN d = 23
                     ELSE IF y = 2021 THEN d = 22
                     ELSE IF y >= 2003 THEN IsNthMonday(date, 3)
                     ELSE y >= 1996 /\ d = 20)
        \/ m = 8 /\ (IF y = 2020 THEN d = 10
                     ELSE IF y = 2021 THEN d = 8
                     ELSE y >= 2016 /\ d = 11)
        \/ m = 9 /\ (IF y >= 2003 THEN IsNthMonday(date, 3) ELSE y >= 1966 /\ d = 15)
        \/ IF y = 2020 THEN m = 7 /\ d = 24
           ELSE IF y = 2021 THEN m = 7 /\ d = 23
           ELSE m = 10 /\ (IF y >= 2000 THEN IsNthMonday(date, 2)
                           ELSE y >= 1966 /\ d = 10)

\* a holiday under rules 1-8
UnderRules1to8(date) ==
    ValidDate(date)
        /\ (UnderFixedDateRule(date) \/ UnderMoveableRule(date) \/ UnderOneOffRule(date))

\* rule 9: no holiday under rules 1-8, between two of them
IsSandwiched(date) ==
    /\ ValidDate(date)
    /\ ~UnderRules1to8(date)
    /\ UnderRules1to8(prevDate(date))
    /\ UnderRules1to8(nextDate(date))

UnderRules1to9(date) ==
    UnderRules1to8(date) \/ (date.year >= 1985 /\ IsSandwiched(date))

\* the date ends a run of rules-1-9 holidays that starts on a Sunday
RECURSIVE EndsSundayRun(_)
EndsSundayRun(date) ==
    UnderRules1to9(date) /\ (IsSunday(date) \/ EndsSundayRun(prevDate(date)))

\* rule 10: the first day after such a run
IsSubstituteDay(date) ==
    /\ date.year >= 1973
    /\ ValidDate(date)
    /\ ~UnderRules1to9(date)
    /\ EndsSundayRun(prevDate(date))

\* some rule of the table produces the date
ProducedByRule(date) == UnderRules1to9(date) \/ IsSubstituteDay(date)

----------------------------------------------------------------------------
(* Properties of the date predicates *)

\* C11: isJapaneseHoliday is true of every fixed-date rule's month/day from
\* the rule's effective year on, true of the one-off dates in their listed
\* years and false of them in every other year (12/23 only in 1989..2018),
\* and false of a date that no rule produces; 2026-02-11 and 2026-02-23 are
\* holidays and 2026-02-12 is not.
C11_FixedDatesAndOneOffs ==
    (lastCall = "isJapaneseHoliday" /\ IsDateText(dateString)) =>
        LET date == TextDate(dateString)
        IN  /\ UnderFixedDateRule(date) => answer
            /\ <<date.month, date.day>> \in OneOffDays
                  => (answer <=> UnderOneOffRule(date))
            /\ answer => ProducedByRule(date)
            /\ dateString \in {toDateKey(2026, 2, 11), toDateKey(2026, 2, 23)} => answer
            /\ dateString = toDateKey(2026, 2, 12) => ~answer

\* C11 witness: the Emperor's Birthday of 2026, in effect since 2020, was asked for
C11_Witness ==
    /\ lastCall = "isJapaneseHoliday"
    /\ dateString = toDateKey(2026, 2, 23)
    /\ UnderFixedDateRule(TextDate(dateString))
    /\ answer

\* C12: isNonWorkingDay(d) is isWeekend(d) OR isJapaneseHoliday(d) for every
\* string d; the Monday holiday 2026-02-23 is non-working and the ordinary
\* Tuesday 2026-02-24 is not.
C12_NonWorkingIsWeekendOrHoliday ==
    lastCall = "isNonWorkingDay" =>
        /\ answer = (isWeekend(dateString)
                        \/ isJapaneseHoliday(cacheBefore, dateString).ret)
        /\ dateString = toDateKey(2026, 2, 23)
              => answer /\ IsMonday(TextDate(dateString))
        /\ dateString = toDateKey(2026, 2, 24) => ~answer

\* C12 witness: a holiday on a Monday was found non-working
C12_Witness ==
    /\ lastCall = "isNonWorkingDay"
    /\ dateString = toDateKey(2026, 2, 23)
    /\ IsMonday(TextDate(dateString))
    /\ ~isWeekend(dateString)
    /\ answer

DashPlaces(text) == {i \in 1..Len(text) : text[i] = Dash}

\* a text that is a run of one or more digits
IsIntegerText(text) == Len(text) > 0 /\ \A i \in 1..Len(text) : IsDigit(text[i])

\* the first three components of a text with two dashes or more
Components(text) ==
    LET first == CHOOSE i \in DashPlaces(text) : \A j \in DashPlaces(text) : i <= j
        later == {i \in DashPlaces(text) : i > first}
        second == CHOOSE i \in later : \A j \in later : i <= j
        after == {i \in later : i > second}
        last == IF after = {} THEN Len(text) + 1
                ELSE CHOOSE i \in after : \A j \in after : i <= j
    IN  <<SubSeq(text, 1, first - 1), SubSeq(text, first + 1, second - 1),
          SubSeq(text, second + 1, last - 1)>>

\* the text cannot be decomposed into three integer components, or its month
\* is outside 1..12, or its day outside 1..31
IsUnparseable(text) ==
    \/ Cardinality(DashPlaces(text)) < 2
    \/ \E k \in 1..3 : ~IsIntegerText(Components(text)[k])
    \/ digitsValue(Components(text)[2], 1, 0) \notin 1..12
    \/ digitsValue(Components(text)[3], 1, 0) \notin 1..31

\* C16: called on a string that cannot be decomposed into three integer
\* components, or whose month is outside 1..12 or day outside 1..31, each of
\* isJapaneseHoliday, isWeekend and isNonWorkingDay returns false and leaves
\* the holiday cache as it was.
C16_UnparseableIsFalse ==
    (lastCall # "" /\ IsUnparseable(dateString)) =>
        (answer = FALSE /\ holidayCache = cacheBefore)

\* the text has three integer components with month in 1..12 and day in
\* 1..31 and names a day its month does not have
NamesNoDay(text) ==
    /\ IsDateText(text)
    /\ TextDate(text).month \in 1..12
    /\ TextDate(text).day \in 1..31
    /\ ~ValidDate(TextDate(text))

\* C23: called on a string whose components are integers with month in 1..12
\* and day in 1..31 but which names a day that does not exist in that month
\* (2026-02-29, 2026-02-30, 2026-04-31), isWeekend returns false and
\* isJapaneseHoliday returns false.
C23_NoSuchDayIsFalse ==
    (lastCall \in {"isWeekend", "isJapaneseHoliday"} /\ NamesNoDay(dateString)) =>
        answer = FALSE

----------------------------------------------------------------------------
(* Reconciling twice *)

\* C27: for currentRows with distinct ids and any orderedIds, once the patches
\* returned by buildSortOrderPatches(currentRows, orderedIds, step) have been
\* applied to currentRows, buildSortOrderPatches on the updated rows with the
\* same orderedIds and step returns the empty sequence.
C27_SecondReconcileIsEmpty ==
    (pc = "written" /\ DistinctIds(currentRows)) =>
        buildSortOrderPatches(storedRows, orderedIds, step) = <<>>

\* C27 witness: three patches were written for an order that names an unknown
\* id and repeats one, and the rows are not the rows that were passed
C27_Witness ==
    /\ pc = "written"
    /\ Len(currentRows) = 3
    /\ Len(patches) = 3
    /\ orderedIds = <<"c", UnknownId, "c">>
    /\ DistinctIds(currentRows)
    /\ storedRows # currentRows
    /\ \A i \in 1..3 : storedRows[i].id = currentRows[i].id

----------------------------------------------------------------------------
(* Properties of the master table *)

SortOrdersIn(rows) == {rows[i].sortOrder : i \in 1..Len(rows)}

\* C26: starting from an empty table, after any series of creations (the new
\* row stored with getNextSortOrder of the existing values), reorders (all
\* patches of buildSortOrderPatches applied) and deletions with step >= 1,
\* all stored sort orders are positive and pairwise distinct, and a row just
\* created has a sort order greater than every existing one, no existing row
\* having been changed.
C26_TailPlacement ==
    pc # "reordering" =>
        /\ stepOf(step) >= 1
        /\ \A i \in 1..Len(storedRows) : storedRows[i].sortOrder > 0
        /\ \A i, j \in 1..Len(storedRows) :
              storedRows[i].sortOrder = storedRows[j].sortOrder => i = j
        /\ pc = "created" =>
              /\ Len(storedRows) = Len(rowsBefore) + 1
              /\ \A i \in 1..Len(rowsBefore) : storedRows[i] = rowsBefore[i]
              /\ storedRows[Len(storedRows)].id \notin IdsOf(rowsBefore)
              /\ \A v \in SortOrdersIn(rowsBefore) : storedRows[Len(storedRows)].sortOrder > v

\* C26 witness: a row is created when deletions have left the table with the
\* two values 2 * step and 4 * step
C26_Witness ==
    /\ pc = "created"
    /\ SortOrdersIn(rowsBefore) = {2 * stepOf(step), 4 * stepOf(step)}
    /\ SortOrdersIn(storedRows) = {2 * stepOf(step), 4 * stepOf(step), 5 * stepOf(step)}
    /\ nextSortOrder = 5 * stepOf(step)

\* C28: the patches of one reorder are applied by independent requests; their
\* ids are pairwise distinct, a request still under way has changed nothing,
\* and whatever the order in which they arrive, once all have arrived the
\* sort orders are step, 2*step, ... along the desired order.
C28_AnyArrivalOrderSameResult ==
    /\ pc \in {"reordering", "reordered"} =>
          /\ \A k, l \in 1..Len(patches) : patches[k].id = patches[l].id => k = l
          /\ IdsOf(storedRows) = IdsOf(rowsBefore)
          /\ \A id \in IdsOf(storedRows) :
                SortOrderOf(storedRows, id) =
                    IF \E k \in (1..Len(patches)) \ pending : patches[k].id = id
                    THEN PositionOf(orderedIds, id) * stepOf(step)
                    ELSE SortOrderOf(rowsBefore, id)
    /\ pc = "reordered" =>
          /\ pending = {}
          /\ IsRenumbered(storedRows, orderedIds, step)
          /\ idsOfRows(currentRows) = orderedIds

\* C28 witness: of three requests the second has arrived first
C28_Witness ==
    /\ pc = "reordering"
    /\ Len(patches) = 3
    /\ pending = {1, 3}
    /\ storedRows # rowsBefore

----------------------------------------------------------------------------
(* Properties of the master table editor *)

\* at most one request is in flight; from the drop until the request settles
\* the lock is set, no drag is under way and the order of the drop stays
\* displayed; when the request has settled the lock is released
OneReorderAtATime ==
    /\ inFlight <= 1
    /\ reorderBusy <=> inFlight = 1
    /\ reorderBusy => (dragState = <<>> /\ orderedRows = nextRows)
    /\ pc \in {"resolved", "rejected"} => (~reorderBusy /\ inFlight = 0)

\* C30 as stated: at most one reorder request is in flight; while it is, no
\* drag starts and incoming rows do not overwrite the displayed order; when
\* the request fails the displayed order is the order shown before the drop;
\* in both outcomes the lock is released.
C30_RestoredOnFailure ==
    /\ OneReorderAtATime
    /\ pc = "rejected" => orderedRows = previousRows

\* C30 amended: at most one reorder request is in flight; while it is, no
\* drag starts and incoming rows do not overwrite the displayed order; when
\* the request fails the displayed order is the rows last received from the
\* parent, which is the order shown before the drop when no other rows have
\* arrived since that order was displayed; in both outcomes the lock is
\* released.
C30_LockedThenResynchronised ==
    /\ OneReorderAtATime
    /\ pc = "rejected" => orderedRows = rowsProp
    /\ (pc = "rejected" /\ rowsProp = previousRows) => orderedRows = previousRows

\* C30 witness: a request has failed after other rows arrived while it was in
\* flight; the rows displayed are neither those before the drop nor those
\* of the drop
C30_Witness ==
    /\ pc = "rejected"
    /\ ~reorderBusy
    /\ Len(previousRows) = 3
    /\ rowsProp # previousRows
    /\ orderedRows = rowsProp
    /\ orderedRows # nextRows

----------------------------------------------------------------------------
(* Properties of the holiday cache *)

\* the set a fresh computation produces, year by year
FreshSets == [y \in {0} \cup (FirstYear..LastYear) |-> buildJapaneseHolidaySet(y)]

\* C24: after any sequence of isJapaneseHoliday queries over any years, every
\* cached entry of a year is the set a fresh computation for that year
\* produces, an entry once stored is neither replaced nor modified, the set of
\* a year is built at most once, and the answer to a query is the answer the
\* same query gets when no query came before it.
C24_CacheIsTransparent ==
    pc = "queried" =>
        /\ \A y \in DOMAIN holidayCache : holidayCache[y] = FreshSets[y]
        /\ \A y \in DOMAIN cacheBefore :
              y \in DOMAIN holidayCache /\ holidayCache[y] = cacheBefore[y]
        /\ \A y \in DOMAIN buildCount : buildCount[y] <= 1
        /\ DOMAIN buildCount = DOMAIN holidayCache
        /\ answer = isJapaneseHoliday(<<>>, dateString).ret

\* C24 witness: a query of 2026 answered from the cache, after queries of
\* 2019 and 2026
C24_Witness ==
    /\ pc = "queried"
    /\ dateString = toDateKey(2026, 2, 11)
    /\ answer = TRUE
    /\ cacheBefore = holidayCache
    /\ DOMAIN holidayCache = {2019, 2026}
    /\ buildCount[2026] = 1

----------------------------------------------------------------------------
(* Properties of the bridge rule *)

\* the dates of a year
YearDays(y) == {date \in [year : {y}, month : 1..12, day : 1..31] : ValidDate(date)}

\* the keys of the dates of the year that satisfy the condition
KeysWhere(y, Condition(_)) ==
    {toDateKey(date.year, date.month, date.day) : date \in {d \in YearDays(y) : Condition(d)}}

\* C20: from 1985 on, every date that is no holiday under rules 1-8 and lies
\* between two dates that are is in the final set (2019-04-30, 2019-05-02,
\* 2026-09-22); the bridge rule adds exactly these dates, decided against the
\* set of rules 1-8 alone, and it adds nothing before 1985.
C20_BridgeBetweenHolidays ==
    /\ pc = "bridged" =>
          /\ KeysWhere(year, UnderRules1to8) \subseteq holidays
          /\ holidays \ KeysWhere(year, UnderRules1to8)
                = (IF year >= 1985 THEN KeysWhere(year, IsSandwiched) ELSE {})
    /\ pc = "built" =>
          /\ year >= 1985 => KeysWhere(year, IsSandwiched) \subseteq holidays
          /\ year = 2019 => {toDateKey(2019, 4, 30), toDateKey(2019, 5, 2)} \subseteq holidays
          /\ year = 2026 => toDateKey(2026, 9, 22) \in holidays

\* C20 witness: in 2019 the bridge rule has added 04-30 and 05-02, each
\* between two holidays of rules 1-8
C20_Witness ==
    /\ pc = "bridged"
    /\ year = 2019
    /\ IsSandwiched(DateOf(2019, 4, 30))
    /\ IsSandwiched(DateOf(2019, 5, 2))
    /\ {toDateKey(2019, 4, 30), toDateKey(2019, 5, 2)} \subseteq holidays
    /\ toDateKey(2019, 4, 30) \notin KeysWhere(year, UnderRules1to8)

----------------------------------------------------------------------------
(* Properties of the built holiday set *)

KeyOf(y, m, d) == toDateKey(y, m, d)

\* the keys of the Mondays among the given days of a month
MondayKeys(y, m, days) == {KeyOf(y, m, d) : d \in {c \in days : IsMonday(DateOf(y, m, c))}}

\* C21: in the Olympic years the shifted dates replace the regular ones: in
\* 2020 the dates 07-23, 07-24 and 08-10 are holidays and the 3rd Monday of
\* July (07-20), 08-11 and the 2nd Monday of October (10-12) are not; in 2021
\* the dates 07-22, 07-23 and 08-08 are holidays and 07-19, 08-11 and 10-11
\* are not.
C21_OlympicYears ==
    pc = "built" =>
        /\ year = 2020 =>
              /\ {KeyOf(2020, 7, 23), KeyOf(2020, 7, 24), KeyOf(2020, 8, 10)} \subseteq holidays
              /\ MondayKeys(2020, 7, 15..21) = {KeyOf(2020, 7, 20)}
              /\ MondayKeys(2020, 10, 8..14) = {KeyOf(2020, 10, 12)}
              /\ {KeyOf(2020, 7, 20), KeyOf(2020, 8, 11), KeyOf(2020, 10, 12)} \cap holidays = {}
        /\ year = 2021 =>
              /\ {KeyOf(2021, 7, 22), KeyOf(2021, 7, 23), KeyOf(2021, 8, 8)} \subseteq holidays
              /\ MondayKeys(2021, 7, 15..21) = {KeyOf(2021, 7, 19)}
              /\ MondayKeys(2021, 10, 8..14) = {KeyOf(2021, 10, 11)}
              /\ {KeyOf(2021, 7, 19), KeyOf(2021, 8, 11), KeyOf(2021, 10, 11)} \cap holidays = {}

\* C21 witness: the set of 2021 is built, with Mountain Day on 08-08 and its
\* substitute on 08-09
C21_Witness ==
    /\ pc = "built"
    /\ year = 2021
    /\ {KeyOf(2021, 7, 22), KeyOf(2021, 7, 23), KeyOf(2021, 8, 8), KeyOf(2021, 8, 9)}
          \subseteq holidays
    /\ KeyOf(2021, 8, 11) \notin holidays

\* C22: from 2000 on the set holds the Monday among January 8..14 and, except
\* in 2020 and 2021, the Monday among October 8..14; from 2003 on it holds the
\* Monday among September 15..21 and, except in 2020 and 2021, the Monday
\* among July 15..21; in earlier years the fixed date (1/15, 10/10, 9/15,
\* 7/20) is in the set from its effective year on.
C22_MondayHolidays ==
    pc = "built" =>
        /\ year >= 2000 =>
              /\ Cardinality(MondayKeys(year, 1, 8..14)) = 1
              /\ MondayKeys(year, 1, 8..14) \subseteq holidays
              /\ year \notin {2020, 2021} =>
                    /\ Cardinality(MondayKeys(year, 10, 8..14)) = 1
                    /\ MondayKeys(year, 10, 8..14) \subseteq holidays
        /\ year >= 2003 =>
              /\ Cardinality(MondayKeys(year, 9, 15..21)) = 1
              /\ MondayKeys(year, 9, 15..21) \subseteq holidays
              /\ year \notin {2020, 2021} =>
                    /\ Cardinality(MondayKeys(year, 7, 15..21)) = 1
                    /\ MondayKeys(year, 7, 15..21) \subseteq holidays
        /\ year \in 1949..1999 => KeyOf(year, 1, 15) \in holidays
        /\ year \in 1966..1999 => KeyOf(year, 10, 10) \in holidays
        /\ year \in 1966..2002 => KeyOf(year, 9, 15) \in holidays
        /\ year \in 1996..2002 => KeyOf(year, 7, 20) \in holidays

\* C22 witness: in 2026 the four Mondays are 01-12, 07-20, 09-21 and 10-12
C22_Witness ==
    /\ pc = "built"
    /\ year = 2026
    /\ MondayKeys(year, 1, 8..14) = {KeyOf(2026, 1, 12)}
    /\ MondayKeys(year, 7, 15..21) = {KeyOf(2026, 7, 20)}
    /\ {KeyOf(2026, 1, 12), KeyOf(2026, 7, 20), KeyOf(2026, 9, 21), KeyOf(2026, 10, 12)}
          \subseteq holidays

\* C29: every element of the set built for a year is a real calendar date of
\* that year (equinox days, n-th Monday days, bridge and substitute days
\* included): none falls into the year before or after, at any stage.
C29_KeysAreDatesOfTheYear ==
    \A key \in holidays :
        /\ IsDateText(key)
        /\ TextDate(key).year = year
        /\ ValidDate(TextDate(key))

\* C29 witness: the set of 2019 is built, with its equinox days, Mondays,
\* bridge days and substitute days
C29_Witness ==
    /\ pc = "built"
    /\ year = 2019
    /\ {KeyOf(2019, 3, 21), KeyOf(2019, 1, 14), KeyOf(2019, 4, 30), KeyOf(2019, 5, 6),
         KeyOf(2019, 12, 23)} \cap holidays
          = {KeyOf(2019, 3, 21), KeyOf(2019, 1, 14), KeyOf(2019, 4, 30), KeyOf(2019, 5, 6)}
    /\ holidays # bridged

----------------------------------------------------------------------------
(* Properties of dateRange and daysBetween *)

\* the calendar day after a date
DayAfter(date) ==
    IF date.day < MonthLength(date.year, date.month)
    THEN DateOf(date.year, date.month, date.day + 1)
    ELSE IF date.month < 12 THEN DateOf(date.year, date.month + 1, 1)
    ELSE DateOf(date.year + 1, 1, 1)

\* a is an earlier date than b
IsEarlier(a, b) ==
    \/ a.year < b.year
    \/ a.year = b.year /\ a.month < b.month
    \/ a.year = b.year /\ a.month = b.month /\ a.day < b.day

\* the number of calendar dates from a on that are earlier than b
DaysUpTo(a, b) ==
    Cardinality({date \in [year : a.year..b.year, month : 1..12, day : 1..31] :
                    ValidDate(date) /\ ~IsEarlier(date, a) /\ IsEarlier(date, b)})

\* the signed number of calendar days from a to b
SignedDays(a, b) == IF IsEarlier(b, a) THEN 0 - DaysUpTo(b, a) ELSE DaysUpTo(a, b)

\* C14: for valid dates start <= end, dateRange(start, end) starts with start,
\* ends with end, holds dates that are each the calendar day after the one
\* before (across month and year ends), and has daysBetween(start, end) + 1
\* elements.
C14_RangeIsEveryDay ==
    (pc = "ranged" /\ ~IsEarlier(TextDate(rangeEnd), TextDate(rangeStart))) =>
        /\ Len(rangeDates) >= 1
        /\ rangeDates[1] = rangeStart
        /\ rangeDates[Len(rangeDates)] = rangeEnd
        /\ \A i \in 1..Len(rangeDates) :
              IsDateText(rangeDates[i]) /\ ValidDate(TextDate(rangeDates[i]))
        /\ \A i \in 1..(Len(rangeDates) - 1) :
              TextDate(rangeDates[i + 1]) = DayAfter(TextDate(rangeDates[i]))
        /\ Len(rangeDates) = daysBetween(rangeStart, rangeEnd) + 1

\* C14 witness: a range over the end of a leap February and a year end
C14_Witness ==
    /\ pc = "ranged"
    /\ rangeStart = toDateKey(2023, 12, 30)
    /\ rangeEnd = toDateKey(2024, 3, 1)
    /\ Len(rangeDates) = 63
    /\ rangeDates[2] = toDateKey(2023, 12, 31)
    /\ rangeDates[3] = toDateKey(2024, 1, 1)
    /\ rangeDates[62] = toDateKey(2024, 2, 29)

\* C25: for valid dates with end strictly earlier than start, by one day or by
\* many, dateRange(start, end) is the empty sequence.
C25_EndBeforeStartIsEmpty ==
    (pc = "ranged" /\ IsEarlier(TextDate(rangeEnd), TextDate(rangeStart))) =>
        rangeDates = <<>>

\* C25 witness: the end is 63 days before the start
C25_Witness ==
    /\ pc = "ranged"
    /\ rangeStart = toDateKey(2024, 3, 2)
    /\ rangeEnd = toDateKey(2023, 12, 30)
    /\ daysBetween(rangeStart, rangeEnd) = 0 - 63
    /\ rangeDates = <<>>

\* C15: daysBetween(start, end) is the signed number of calendar days from
\* start to end: positive when end is later, 0 for equal dates, and the
\* negation of daysBetween(end, start); from 2026-02-01 to 2026-02-05 it is 4.
C15_SignedDayCount ==
    pc = "counted" =>
        /\ dayCount = SignedDays(TextDate(rangeStart), TextDate(rangeEnd))
        /\ IsEarlier(TextDate(rangeStart), TextDate(rangeEnd)) => dayCount > 0
        /\ rangeStart = rangeEnd => dayCount = 0
        /\ dayCount = 0 - daysBetween(rangeEnd, rangeStart)
        /\ (rangeStart = toDateKey(2026, 2, 1) /\ rangeEnd = toDateKey(2026, 2, 5))
              => dayCount = 4

\* C15 witness: a negative count, from 2024-03-01 back over the leap day
C15_Witness ==
    /\ pc = "counted"
    /\ rangeStart = toDateKey(2024, 3, 1)
    /\ rangeEnd = toDateKey(2024, 2, 27)
    /\ dayCount = -3

====
